---- MODULE Spec2Model ----
(***************************************************************************)
(* RT-DETR detection head (modeling_rt_detr.py): box geometry utilities,   *)
(* the Hungarian matcher, the contrastive denoising group builder, the     *)
(* transformer decoder loop and RTDetrTransformer.forward.                 *)
(*                                                                         *)
(* Three specifications share the module:                                  *)
(*   SpecBox     the pure box functions applied to boxes of a small grid   *)
(*   SpecMatcher RTDetrHungarianMatcher.forward on a batch                 *)
(*   Spec        RTDetrTransformer.forward: denoising group, decoder loop, *)
(*               output mapping                                            *)
(* Real numbers are exact rationals <<n, d>>; a division by zero yields    *)
(* the IEEE value the tensor library yields (NaN = <<0,0>>, +-Inf).        *)
(***************************************************************************)
EXTENDS Integers, Sequences, FiniteSets

VARIABLES
    bx_pc, boxes1, boxes2, bx_res,
    m_pc, m_cfg, m_outputs, m_targets, m_indices,
    pc, cfg, targets, dn, dec, out,
    l_pc, l_crit, l_outputs, l_targets, l_res,
    md_pc, md_cfg, md_in, md_st, md_out

boxVars   == <<bx_pc, boxes1, boxes2, bx_res>>
matchVars == <<m_pc, m_cfg, m_outputs, m_targets, m_indices>>
xfVars    == <<pc, cfg, targets, dn, dec, out>>
lossVars  == <<l_pc, l_crit, l_outputs, l_targets, l_res>>
modelVars == <<md_pc, md_cfg, md_in, md_st, md_out>>
vars      == <<bx_pc, boxes1, boxes2, bx_res,
               m_pc, m_cfg, m_outputs, m_targets, m_indices,
               pc, cfg, targets, dn, dec, out,
               l_pc, l_crit, l_outputs, l_targets, l_res,
               md_pc, md_cfg, md_in, md_st, md_out>>

None == "None"

(***************************************************************************)
(* Bounds of the model.                                                    *)
(***************************************************************************)
\* box corner / centre coordinates are drawn from 0..MaxCoord
MaxCoord == 2

(***************************************************************************)
(* Exact rational arithmetic with the IEEE special values.                 *)
(***************************************************************************)
Abs(x) == IF x < 0 THEN -x ELSE x

Sign(x) == IF x < 0 THEN -1 ELSE IF x > 0 THEN 1 ELSE 0

RECURSIVE GCD(_, _)
GCD(a, b) == IF b = 0 THEN a ELSE GCD(b, a % b)

NaN == <<0, 0>>

PosInf == <<1, 0>>

NegInf == <<-1, 0>>

\* the reduced fraction n/d; a zero denominator gives NaN or a signed infinity
Rat(n, d) ==
    IF d = 0 THEN <<Sign(n), 0>>
    ELSE LET g == GCD(Abs(n), Abs(d))
             s == IF d < 0 THEN -1 ELSE 1
         IN  <<(s * n) \div g, (s * d) \div g>>

R(k) == <<k, 1>>

IsFinite(a) == a[2] # 0

IsNaN(a) == a = NaN

RNeg(a) == <<-a[1], a[2]>>

RAdd(a, b) ==
    IF IsFinite(a) /\ IsFinite(b) THEN Rat(a[1] * b[2] + b[1] * a[2], a[2] * b[2])
    ELSE IF IsNaN(a) \/ IsNaN(b) THEN NaN
    ELSE IF IsFinite(a) THEN b
    ELSE IF IsFinite(b) THEN a
    ELSE IF a = b THEN a ELSE NaN

RSub(a, b) == RAdd(a, RNeg(b))

RMul(a, b) ==
    IF IsFinite(a) /\ IsFinite(b) THEN Rat(a[1] * b[1], a[2] * b[2])
    ELSE IF IsNaN(a) \/ IsNaN(b) THEN NaN
    ELSE <<Sign(a[1]) * Sign(b[1]), 0>>

\* tensor division: x/0 is +-Inf, 0/0 is NaN, an infinity divided by a
\* finite value keeps being infinite (the zero divisor is +0), a finite value
\* divided by an infinity is 0, Inf/Inf is NaN
RDiv(a, b) ==
    IF IsFinite(a) /\ IsFinite(b) THEN Rat(a[1] * b[2], a[2] * b[1])
    ELSE IF IsNaN(a) \/ IsNaN(b) THEN NaN
    ELSE IF IsFinite(b) THEN <<a[1] * (IF b[1] < 0 THEN -1 ELSE 1), 0>>
    ELSE IF IsFinite(a) THEN R(0)
    ELSE NaN

\* comparisons are false as soon as an operand is NaN
RLe(a, b) ==
    IF IsNaN(a) \/ IsNaN(b) THEN FALSE
    ELSE IF IsFinite(a) /\ IsFinite(b) THEN a[1] * b[2] <= b[1] * a[2]
    ELSE IF IsFinite(a) THEN b = PosInf
    ELSE IF IsFinite(b) THEN a = NegInf
    ELSE a = b \/ (a = NegInf /\ b = PosInf)

RLt(a, b) == RLe(a, b) /\ a # b

RGe(a, b) == RLe(b, a)

RMin(a, b) == IF IsNaN(a) \/ IsNaN(b) THEN NaN ELSE IF RLe(a, b) THEN a ELSE b

RMax(a, b) == IF IsNaN(a) \/ IsNaN(b) THEN NaN ELSE IF RLe(a, b) THEN b ELSE a

RAbs(a) == <<Abs(a[1]), a[2]>>

\* tensor.clamp(min=0)
ClampMin0(a) == IF IsNaN(a) THEN NaN ELSE RMax(a, R(0))

(***************************************************************************)
(* Box geometry utilities.  A box is a 4-tuple of rationals; a box set     *)
(* (an [N, 4] tensor) is a sequence of boxes.                              *)
(***************************************************************************)
box_area(b) == RMul(RSub(b[3], b[1]), RSub(b[4], b[2]))

\* intersection area of one pair, as box_iou computes it
PairInter(a, b) ==
    LET w == ClampMin0(RSub(RMin(a[3], b[3]), RMax(a[1], b[1])))
        h == ClampMin0(RSub(RMin(a[4], b[4]), RMax(a[2], b[2])))
    IN  RMul(w, h)

\* mutant: the intersection is not subtracted from the sum of the areas
PairUnionNoInter(a, b) == RAdd(box_area(a), box_area(b))

PairUnion(a, b) == RSub(RAdd(box_area(a), box_area(b)), PairInter(a, b))

\* box_iou: the [N, M] matrices iou and union
box_iou(bs1, bs2) ==
    [iou   |-> [i \in 1..Len(bs1) |-> [j \in 1..Len(bs2) |->
                  RDiv(PairInter(bs1[i], bs2[j]), PairUnion(bs1[i], bs2[j]))]],
     union |-> [i \in 1..Len(bs1) |-> [j \in 1..Len(bs2) |->
                  PairUnion(bs1[i], bs2[j])]]]

\* mutant: min and max exchanged, the "enclosing" box is the intersection box
EnclosingAreaSwapped(a, b) ==
    LET w == ClampMin0(RSub(RMin(a[3], b[3]), RMax(a[1], b[1])))
        h == ClampMin0(RSub(RMin(a[4], b[4]), RMax(a[2], b[2])))
    IN  RMul(w, h)

\* area of the smallest box enclosing the pair (lines 200-204)
EnclosingArea(a, b) ==
    LET w == ClampMin0(RSub(RMax(a[3], b[3]), RMin(a[1], b[1])))
        h == ClampMin0(RSub(RMax(a[4], b[4]), RMin(a[2], b[2])))
    IN  RMul(w, h)

\* mutant: only the first box of the set is looked at
CornerFormatFirstOnly(bs) ==
    Len(bs) = 0 \/ (RGe(bs[1][3], bs[1][1]) /\ RGe(bs[1][4], bs[1][2]))

\* (boxes[:, 2:] >= boxes[:, :2]).all()
CornerFormat(bs) ==
    \A i \in 1..Len(bs) : RGe(bs[i][3], bs[i][1]) /\ RGe(bs[i][4], bs[i][2])

\* generalized_box_iou: raises ValueError, or returns the [N, M] matrix.
\* iou_called tells whether box_iou ran; union and area are the two
\* denominators the function divides by.
generalized_box_iou(bs1, bs2) ==
    IF ~CornerFormat(bs1) THEN [raised |-> "ValueError", iou_called |-> FALSE]
    ELSE IF ~CornerFormat(bs2) THEN [raised |-> "ValueError", iou_called |-> FALSE]
    ELSE LET r == box_iou(bs1, bs2)
             area == [i \in 1..Len(bs1) |-> [j \in 1..Len(bs2) |->
                        EnclosingArea(bs1[i], bs2[j])]]
         IN  [raised |-> None, iou_called |-> TRUE,
              iou |-> r.iou, union |-> r.union, area |-> area,
              giou |-> [i \in 1..Len(bs1) |-> [j \in 1..Len(bs2) |->
                          RSub(r.iou[i][j],
                               RDiv(RSub(area[i][j], r.union[i][j]), area[i][j]))]]]

\* mutant: the whole size, not half of it, is taken on each side of the centre
box_cxcywh_to_xyxy_FullSize(b) ==
    <<RSub(b[1], b[3]), RSub(b[2], b[4]), RAdd(b[1], b[3]), RAdd(b[2], b[4])>>

box_cxcywh_to_xyxy(b) ==
    LET half == Rat(1, 2)
    IN  <<RSub(b[1], RMul(half, b[3])), RSub(b[2], RMul(half, b[4])),
          RAdd(b[1], RMul(half, b[3])), RAdd(b[2], RMul(half, b[4]))>>

\* mutant: the centre is the sum of the corners, not their mean
box_xyxy_to_cxcywh_NoHalf(b) ==
    <<RAdd(b[1], b[3]), RAdd(b[2], b[4]), RSub(b[3], b[1]), RSub(b[4], b[2])>>

box_xyxy_to_cxcywh(b) ==
    <<RDiv(RAdd(b[1], b[3]), R(2)), RDiv(RAdd(b[2], b[4]), R(2)),
      RSub(b[3], b[1]), RSub(b[4], b[2])>>

(***************************************************************************)
(* Idle values: a specification leaves the components it does not run at   *)
(* these values.                                                           *)
(***************************************************************************)
IdleBox ==
    /\ bx_pc = "idle" /\ boxes1 = <<>> /\ boxes2 = <<>> /\ bx_res = [op |-> None]

IdleMatcher ==
    /\ m_pc = "idle" /\ m_cfg = None /\ m_outputs = None
    /\ m_targets = None /\ m_indices = None

IdleTransformer ==
    /\ pc = "idle" /\ cfg = None /\ targets = None
    /\ dn = None /\ dec = None /\ out = None

IdleLoss ==
    /\ l_pc = "idle" /\ l_crit = None /\ l_outputs = None
    /\ l_targets = None /\ l_res = None

IdleModel ==
    /\ md_pc = "idle" /\ md_cfg = None /\ md_in = None
    /\ md_st = None /\ md_out = None

(***************************************************************************)
(* SpecBox: the box functions applied to boxes with grid coordinates.      *)
(***************************************************************************)
Coords == {R(k) : k \in 0..MaxCoord}

\* every 4-tuple over the grid: well-formed, zero-area and inverted boxes
GridBoxes == {<<a, b, c, d>> : a \in Coords, b \in Coords, c \in Coords, d \in Coords}

\* a second row for boxes1: one well-formed box, one with x2 < x1
ExtraBoxes == {<<R(0), R(0), R(1), R(1)>>, <<R(1), R(0), R(0), R(1)>>}

InitBox ==
    /\ bx_pc = "ready"
    /\ \E b \in GridBoxes :
          \/ boxes1 = <<b>>
          \/ \E e \in ExtraBoxes : boxes1 = <<b, e>>
    /\ \E b \in GridBoxes : boxes2 \in {<<>>, <<b>>}
    /\ bx_res = [op |-> None]
    /\ IdleMatcher /\ IdleTransformer /\ IdleLoss /\ IdleModel

CallGeneralizedBoxIou ==
    /\ bx_pc = "ready"
    /\ bx_res' = [op |-> "generalized_box_iou", r |-> generalized_box_iou(boxes1, boxes2)]
    /\ bx_pc' = "done"
    /\ UNCHANGED <<boxes1, boxes2, matchVars, xfVars, lossVars, modelVars>>

CallBoxIou ==
    /\ bx_pc = "ready"
    /\ bx_res' = [op |-> "box_iou", r |-> box_iou(boxes1, boxes2)]
    /\ bx_pc' = "done"
    /\ UNCHANGED <<boxes1, boxes2, matchVars, xfVars, lossVars, modelVars>>

\* the single box boxes1[1] read as a centre-size box and converted to corners,
\* or a centre-size box produced by the other conversion converted back
CallCxcywhToXyxy ==
    /\ Len(boxes1) = 1 /\ Len(boxes2) = 0
    /\ \/ /\ bx_pc = "ready"
          /\ bx_res' = [op |-> "convert", fmt |-> "xyxy", steps |-> 1,
                        box |-> box_cxcywh_to_xyxy(boxes1[1])]
       \/ /\ bx_pc = "converted" /\ bx_res.fmt = "cxcywh" /\ bx_res.steps = 1
          /\ bx_res' = [op |-> "convert", fmt |-> "xyxy", steps |-> 2,
                        box |-> box_cxcywh_to_xyxy(bx_res.box)]
    /\ bx_pc' = "converted"
    /\ UNCHANGED <<boxes1, boxes2, matchVars, xfVars, lossVars, modelVars>>

CallXyxyToCxcywh ==
    /\ Len(boxes1) = 1 /\ Len(boxes2) = 0
    /\ \/ /\ bx_pc = "ready"
          /\ bx_res' = [op |-> "convert", fmt |-> "cxcywh", steps |-> 1,
                        box |-> box_xyxy_to_cxcywh(boxes1[1])]
       \/ /\ bx_pc = "converted" /\ bx_res.fmt = "xyxy" /\ bx_res.steps = 1
          /\ bx_res' = [op |-> "convert", fmt |-> "cxcywh", steps |-> 2,
                        box |-> box_xyxy_to_cxcywh(bx_res.box)]
    /\ bx_pc' = "converted"
    /\ UNCHANGED <<boxes1, boxes2, matchVars, xfVars, lossVars, modelVars>>

NextBox ==
    \/ CallGeneralizedBoxIou
    \/ CallBoxIou
    \/ CallCxcywhToXyxy
    \/ CallXyxyToCxcywh

SpecBox == InitBox /\ [][NextBox]_vars

(***************************************************************************)
(* Claims about the box utilities (checked under SpecBox).                 *)
(***************************************************************************)
AllBoxes == {boxes1[i] : i \in 1..Len(boxes1)} \cup {boxes2[j] : j \in 1..Len(boxes2)}

\* x2 < x1 or y2 < y1
IllFormed(b) == RLt(b[3], b[1]) \/ RLt(b[4], b[2])

PositiveArea(b) == RLt(b[1], b[3]) /\ RLt(b[2], b[4])

ZeroArea(b) == ~IllFormed(b) /\ ~PositiveArea(b)

GIoUCalled == bx_pc = "done" /\ bx_res.op = "generalized_box_iou"

GIoUReturned == GIoUCalled /\ bx_res.r.raised = None

\* C7: generalized_box_iou raises ValueError exactly when some box of either
\* argument has x2 < x1 or y2 < y1, and it raises before box_iou is computed.
C7_ValidationIffIllFormed ==
    GIoUCalled =>
        /\ (bx_res.r.raised = "ValueError") <=> (\E b \in AllBoxes : IllFormed(b))
        /\ (bx_res.r.raised = "ValueError") => ~bx_res.r.iou_called
        /\ (bx_res.r.raised = None) => bx_res.r.iou_called

\* the error is raised for a set whose first box is well-formed and whose
\* second box is inverted
C7_Witness ==
    /\ GIoUCalled /\ bx_res.r.raised = "ValueError"
    /\ Len(boxes1) = 2 /\ ~IllFormed(boxes1[1]) /\ IllFormed(boxes1[2])
    /\ \A j \in 1..Len(boxes2) : ~IllFormed(boxes2[j])

\* C8 as stated: whenever the check passes, neither the IoU division nor the
\* GIoU division has a zero denominator.
C8_NoZeroDenominator ==
    GIoUReturned =>
        \A i \in 1..Len(boxes1) : \A j \in 1..Len(boxes2) :
            /\ bx_res.r.union[i][j] # R(0)
            /\ bx_res.r.area[i][j] # R(0)

\* C8 amended: whenever the check passes, a pair in which at least one box has
\* positive area divides by non-zero denominators and gets finite values; a
\* pair of two zero-area boxes passes the check and divides by zero.
C8_NoZeroDenominatorUnlessBothDegenerate ==
    GIoUReturned =>
        \A i \in 1..Len(boxes1) : \A j \in 1..Len(boxes2) :
            IF PositiveArea(boxes1[i]) \/ PositiveArea(boxes2[j])
            THEN /\ bx_res.r.union[i][j] # R(0)
                 /\ bx_res.r.area[i][j] # R(0)
                 /\ IsFinite(bx_res.r.iou[i][j])
                 /\ IsFinite(bx_res.r.giou[i][j])
            ELSE /\ bx_res.r.union[i][j] = R(0)
                 /\ IsNaN(bx_res.r.iou[i][j])
                 /\ IsNaN(bx_res.r.giou[i][j])

\* a zero-area box against a disjoint positive-area box passes the check
C8_Witness ==
    /\ GIoUReturned /\ Len(boxes1) = 1 /\ Len(boxes2) = 1
    /\ ZeroArea(boxes1[1]) /\ PositiveArea(boxes2[1])
    /\ bx_res.r.iou[1][1] = R(0)

\* C9: for well-formed boxes of positive area 0 <= IoU <= 1 and
\* -1 <= GIoU <= 1, and for two identical boxes GIoU = IoU = 1.
C9_IoUBounds ==
    /\ (bx_pc = "done" /\ bx_res.op = "box_iou") =>
          \A i \in 1..Len(boxes1) : \A j \in 1..Len(boxes2) :
              (PositiveArea(boxes1[i]) /\ PositiveArea(boxes2[j])) =>
                  /\ RLe(R(0), bx_res.r.iou[i][j])
                  /\ RLe(bx_res.r.iou[i][j], R(1))
                  /\ (boxes1[i] = boxes2[j]) => bx_res.r.iou[i][j] = R(1)
    /\ GIoUReturned =>
          \A i \in 1..Len(boxes1) : \A j \in 1..Len(boxes2) :
              (PositiveArea(boxes1[i]) /\ PositiveArea(boxes2[j])) =>
                  /\ RLe(R(-1), bx_res.r.giou[i][j])
                  /\ RLe(bx_res.r.giou[i][j], R(1))
                  /\ RLe(R(0), bx_res.r.iou[i][j])
                  /\ RLe(bx_res.r.iou[i][j], R(1))
                  /\ (boxes1[i] = boxes2[j]) =>
                        /\ bx_res.r.giou[i][j] = bx_res.r.iou[i][j]
                        /\ bx_res.r.giou[i][j] = R(1)

\* one call with an identical pair (GIoU = 1) and a pair of negative GIoU
C9_Witness ==
    /\ GIoUReturned /\ Len(boxes1) = 2 /\ Len(boxes2) = 1
    /\ PositiveArea(boxes1[1]) /\ boxes1[2] = boxes2[1]
    /\ bx_res.r.giou[2][1] = R(1)
    /\ RLt(bx_res.r.giou[1][1], R(0))

\* C10: the two conversions are inverse to each other in exact arithmetic:
\* whichever conversion is applied first, applying the other one gives the
\* original box back.
C10_RoundTrip ==
    (bx_pc = "converted" /\ bx_res.steps = 2) => bx_res.box = boxes1[1]

\* a centre-size box of odd width went through corners at half coordinates
C10_Witness ==
    /\ bx_pc = "converted" /\ bx_res.steps = 2 /\ bx_res.fmt = "cxcywh"
    /\ boxes1[1][3] = R(1) /\ boxes1[1][4] = R(2)
    /\ box_cxcywh_to_xyxy(boxes1[1])[1][2] = 2

\* the reference converter (torchvision.ops.boxes.box_convert), as the tests
\* use it: the formulas of its documentation
RefCxcywhToXyxy(b) ==
    <<RSub(b[1], RDiv(b[3], R(2))), RSub(b[2], RDiv(b[4], R(2))),
      RAdd(b[1], RDiv(b[3], R(2))), RAdd(b[2], RDiv(b[4], R(2)))>>

RefXyxyToCxcywh(b) ==
    <<RMul(Rat(1, 2), RAdd(b[1], b[3])), RMul(Rat(1, 2), RAdd(b[2], b[4])),
      RAdd(b[3], RNeg(b[1])), RAdd(b[4], RNeg(b[2]))>>

ConvertedOnce == bx_pc = "converted" /\ bx_res.steps = 1

\* C11: one conversion of a box agrees with the reference converter, in both
\* directions, and a box of non-zero width and height is never returned
\* unchanged.
C11_ConvertersAgreeWithReference ==
    ConvertedOnce =>
        /\ bx_res.fmt = "xyxy" =>
              /\ bx_res.box = RefCxcywhToXyxy(boxes1[1])
              /\ (boxes1[1][3] # R(0) /\ boxes1[1][4] # R(0)) => bx_res.box # boxes1[1]
        /\ bx_res.fmt = "cxcywh" =>
              /\ bx_res.box = RefXyxyToCxcywh(boxes1[1])
              /\ (boxes1[1][3] # boxes1[1][1] /\ boxes1[1][4] # boxes1[1][2]) =>
                    bx_res.box # boxes1[1]

\* the centre-size box (1, 1, 1, 2) became the corners (1/2, 0, 3/2, 2)
C11_Witness ==
    /\ ConvertedOnce /\ bx_res.fmt = "xyxy"
    /\ boxes1[1] = <<R(1), R(1), R(1), R(2)>>
    /\ bx_res.box = <<Rat(1, 2), R(0), Rat(3, 2), R(2)>>

(***************************************************************************)
(* RTDetrHungarianMatcher (SpecMatcher).                                   *)
(*                                                                         *)
(* outputs: [out_prob |-> [b][q] class probabilities, pred_boxes |-> [b][q]*)
(* centre-size boxes]; out_prob is the activation of the logits (sigmoid   *)
(* or softmax, lines 1763-1766), exp is not computed here.  targets: one   *)
(* mapping per image, a function from its keys to sequences.  Indices are  *)
(* 0-based as in the code; sequences are 1-based.                          *)
(***************************************************************************)
\* at most MaxQ predictions per image and MaxT targets per image
MaxQ == 2

MaxT == 2

Min(a, b) == IF a <= b THEN a ELSE b

RECURSIVE SumSeq(_)
SumSeq(s) == IF s = <<>> THEN R(0) ELSE RAdd(Head(s), SumSeq(Tail(s)))

RECURSIVE SumInts(_)
SumInts(s) == IF s = <<>> THEN 0 ELSE Head(s) + SumInts(Tail(s))

\* torch.cat / flatten(0, 1) of a sequence of sequences
RECURSIVE Cat(_)
Cat(ss) == IF ss = <<>> THEN <<>> ELSE Head(ss) \o Cat(Tail(ss))

\* matcher_alpha = 0.25, matcher_gamma = 2.0: the focal class term
\* pos_cost_class - neg_cost_class of lines 1779-1781 for the probabilities
\* the model draws, rounded to 1/64 (log is not computed here):
\* 0.3965, -0.0866 and -1.1935
FocalClassCost(p) ==
    CASE p = Rat(1, 8) -> Rat(25, 64)
      [] p = Rat(1, 2) -> Rat(-6, 64)
      [] p = Rat(7, 8) -> Rat(-76, 64)

\* cost_class[r][t], lines 1777-1783
CostClass(mcfg, prob, tgt_id) ==
    IF mcfg.use_focal_loss THEN FocalClassCost(prob[tgt_id + 1])
    ELSE RNeg(prob[tgt_id + 1])

\* torch.cdist(out_bbox, tgt_bbox, p=1)
CostBbox(a, b) ==
    SumSeq([k \in 1..4 |-> RAbs(RSub(a[k], b[k]))])

\* a matrix as materialised rows: the same value, its entries computed once
Matrix(f) == [r \in DOMAIN f |-> f[r] \o <<>>] \o <<>>

\* final_cost of lines 1785-1790 over the flattened predictions and the
\* concatenated targets of the whole batch; "ValueError" when
\* generalized_box_iou refuses the boxes.  The class cost has one column
\* per class label, the other two terms one per box: with a single label
\* the sum broadcasts it over the box columns, any other difference of the
\* two counts raises RuntimeError (in the sum, or in split of line 1793
\* when there is a single box)
FinalCost(mcfg, out_prob, out_bbox, tgt_ids, tgt_bbox) ==
    LET g == generalized_box_iou(
                 Matrix([r \in 1..Len(out_bbox) |-> box_cxcywh_to_xyxy(out_bbox[r])]),
                 Matrix([t \in 1..Len(tgt_bbox) |-> box_cxcywh_to_xyxy(tgt_bbox[t])]))
        same == Len(tgt_ids) = Len(tgt_bbox)
    IN  IF g.raised # None THEN [raised |-> g.raised]
        ELSE IF ~same /\ Len(tgt_ids) # 1 THEN [raised |-> "RuntimeError"]
        ELSE [raised |-> None,
              cost |-> Matrix([r \in 1..Len(out_bbox) |-> [t \in 1..Len(tgt_bbox) |->
                  RAdd(RAdd(RMul(R(mcfg.cost_bbox), CostBbox(out_bbox[r], tgt_bbox[t])),
                            RMul(R(mcfg.cost_class),
                                 CostClass(mcfg, out_prob[r], tgt_ids[IF same THEN t ELSE 1]))),
                       RMul(R(mcfg.cost_giou), RNeg(g.giou[r][t])))]])]

\* mutant: the cost matrix is not split, every image is matched against the
\* targets of the whole batch
ChunkColumnsNoSplit(sizes, i) == [t \in 1..SumInts(sizes) |-> t]

\* final_cost.split(sizes, -1)[i]: the columns of image i (1-based)
ChunkColumns(sizes, i) ==
    [t \in 1..sizes[i] |-> SumInts(SubSeq(sizes, 1, i - 1)) + t]

\* mutant: every chunk is indexed with image 0
ChunkRowsFirstImage(num_queries, i) == [r \in 1..num_queries |-> r]

\* c[i] after view(bs, num_queries, -1): the rows of image i (1-based)
ChunkRows(num_queries, i) ==
    [r \in 1..num_queries |-> (i - 1) * num_queries + r]

\* c[i] for the i-th chunk c: an n x m matrix
ImageCost(final, sizes, num_queries, i) ==
    LET rows == ChunkRows(num_queries, i)
        cols == ChunkColumns(sizes, i)
    IN  [n |-> Len(rows), m |-> Len(cols),
         c |-> Matrix([r \in 1..Len(rows) |-> [t \in 1..Len(cols) |-> final[rows[r]][cols[t]]]])]

(***************************************************************************)
(* scipy.optimize.linear_sum_assignment, by its documented contract: for   *)
(* an n x m cost matrix it returns (row_ind, col_ind), row_ind sorted, of    *)
(* length min(n, m), a minimum-cost one-to-one assignment; it raises       *)
(* ValueError when an entry is NaN or infinite.  Which optimum it returns  *)
(* on a tie is not fixed here: every optimum is a possible result.         *)
(***************************************************************************)
Injective(f) == \A x, y \in DOMAIN f : x # y => f[x] # f[y]

Increasing(f) == \A x, y \in DOMAIN f : x < y => f[x] < f[y]

Assignments(n, m) ==
    LET k == Min(n, m)
    IN  {a \in [1..k -> 0..(n - 1)] \X [1..k -> 0..(m - 1)] :
            Increasing(a[1]) /\ Injective(a[2])}

AssignmentCost(c, a) ==
    SumSeq([x \in 1..Len(a[1]) |-> c[a[1][x] + 1][a[2][x] + 1]])

linear_sum_assignment(mat) ==
    IF \E r \in 1..mat.n : \E t \in 1..mat.m : ~IsFinite(mat.c[r][t])
    THEN [raised |-> "ValueError", results |-> {}]
    ELSE LET all == Assignments(mat.n, mat.m)
         IN  [raised |-> None,
              results |-> {a \in all : \A b \in all :
                              RLe(AssignmentCost(mat.c, a), AssignmentCost(mat.c, b))}]

\* variant: rejects the weights as soon as one of them is zero
MatcherInitAnyZero(class_cost, bbox_cost, giou_cost, use_focal_loss) ==
    IF class_cost = 0 \/ bbox_cost = 0 \/ giou_cost = 0
    THEN [raised |-> "ValueError"]
    ELSE [raised |-> None, cost_class |-> class_cost, cost_bbox |-> bbox_cost,
          cost_giou |-> giou_cost, use_focal_loss |-> use_focal_loss]

\* RTDetrHungarianMatcher.__init__, lines 1724-1737
MatcherInit(class_cost, bbox_cost, giou_cost, use_focal_loss) ==
    IF class_cost = 0 /\ bbox_cost = 0 /\ giou_cost = 0
    THEN [raised |-> "ValueError"]
    ELSE [raised |-> None, cost_class |-> class_cost, cost_bbox |-> bbox_cost,
          cost_giou |-> giou_cost, use_focal_loss |-> use_focal_loss]

\* lines 1793-1796 on the final cost matrix: one linear_sum_assignment per
\* image, on the image's own chunk
AssignPerImage(cost, sizes, num_queries) ==
    LET lsa == {[i |-> i, r |-> linear_sum_assignment(m)] :
                    <<i, m>> \in {<<j, ImageCost(cost, sizes, num_queries, j)>> : j \in 1..Len(sizes)}}
        of(i) == (CHOOSE x \in lsa : x.i = i).r
    IN  IF \E x \in lsa : x.r.raised # None
        THEN [raised |-> "ValueError", results |-> {}]
        ELSE [raised |-> None,
              results |-> {ix \in [1..Len(sizes) -> UNION {x.r.results : x \in lsa}] :
                              \A i \in 1..Len(sizes) : ix[i] \in of(i).results}]

\* RTDetrHungarianMatcher.forward: the exception it raises, or the set of
\* index lists it can return (one (index_i, index_j) pair per image)
MatcherForward(mcfg, outputs, tgts) ==
    LET num_queries == Len(outputs.out_prob[1])
        out_prob == Cat(outputs.out_prob)
        out_bbox == Cat(outputs.pred_boxes)
    IN  IF \E i \in 1..Len(tgts) : "class_labels" \notin DOMAIN tgts[i]
             \/ "boxes" \notin DOMAIN tgts[i]
        THEN [raised |-> "KeyError", results |-> {}]
        ELSE
        LET tgt_ids == Cat([i \in 1..Len(tgts) |-> tgts[i]["class_labels"]])
            tgt_bbox == Cat([i \in 1..Len(tgts) |-> tgts[i]["boxes"]])
            sizes == [i \in 1..Len(tgts) |-> Len(tgts[i]["boxes"])]
        IN  CHOOSE res \in
                {IF fc.raised # None THEN [raised |-> fc.raised, results |-> {}]
                 ELSE AssignPerImage(fc.cost, sizes, num_queries) :
                    fc \in {FinalCost(mcfg, out_prob, out_bbox, tgt_ids, tgt_bbox)}} : TRUE

\* the inputs the model draws
\* (dyadic values keep the exact sums within TLC's integers)
Eighths(a, b, c, d) == <<Rat(a, 8), Rat(b, 8), Rat(c, 8), Rat(d, 8)>>

\* a prediction: class probabilities (2 classes) and a centre-size box
PredKinds ==
    <<[out_prob |-> <<Rat(7, 8), Rat(1, 8)>>, box |-> Eighths(2, 2, 4, 4)],
      [out_prob |-> <<Rat(1, 8), Rat(7, 8)>>, box |-> Eighths(6, 6, 4, 4)],
      [out_prob |-> <<Rat(1, 2), Rat(1, 2)>>, box |-> Eighths(5, 4, 2, 4)]>>

\* a ground-truth entry: class label and centre-size box
TgtKinds ==
    {[label |-> 0, box |-> Eighths(2, 2, 4, 4)],
     [label |-> 1, box |-> Eighths(6, 4, 4, 8)]}

\* constructor arguments: the configuration defaults (focal class term), a
\* matcher on softmax probabilities and L1 distance, and the all-zero weights
MatcherArgs ==
    {[class_cost |-> 2, bbox_cost |-> 5, giou_cost |-> 2, use_focal_loss |-> TRUE],
     [class_cost |-> 1, bbox_cost |-> 1, giou_cost |-> 0, use_focal_loss |-> FALSE],
     [class_cost |-> 0, bbox_cost |-> 0, giou_cost |-> 0, use_focal_loss |-> TRUE],
     [class_cost |-> 0, bbox_cost |-> 0, giou_cost |-> 0, use_focal_loss |-> FALSE]}

Batches == {1, 2}

\* the sequences a, b, a, ... of exactly k elements of S (all of them for k <= 2)
SeqsOfLen(S, k) == {[i \in 1..k |-> IF i % 2 = 1 THEN a ELSE b] : a, b \in S}

SeqsUpTo(S, n) == UNION {SeqsOfLen(S, k) : k \in 0..n}

\* the predictions of one image: k kinds in cyclic order from some start
PredSeqs(k) ==
    {[q \in 1..k |-> PredKinds[((o + q - 2) % Len(PredKinds)) + 1]] : o \in 1..Len(PredKinds)}

TargetOf(kinds) ==
    [class_labels |-> [t \in 1..Len(kinds) |-> kinds[t].label],
     boxes        |-> [t \in 1..Len(kinds) |-> kinds[t].box]]

InitMatcher ==
    /\ m_pc = "new"
    /\ m_cfg \in MatcherArgs
    /\ m_outputs = None /\ m_targets = None /\ m_indices = None
    /\ IdleBox /\ IdleTransformer /\ IdleLoss /\ IdleModel

ConstructMatcher ==
    /\ m_pc = "new"
    /\ LET m == MatcherInit(m_cfg.class_cost, m_cfg.bbox_cost, m_cfg.giou_cost,
                            m_cfg.use_focal_loss)
       IN  /\ m_cfg' = m
           /\ m_pc' = IF m.raised = None THEN "constructed" ELSE "init_error"
    /\ UNCHANGED <<m_outputs, m_targets, m_indices, boxVars, xfVars, lossVars, modelVars>>

CallMatcherForward ==
    /\ m_pc = "constructed"
    /\ \E bs \in Batches, nq \in 1..MaxQ :
       \E pk \in [1..bs -> PredSeqs(nq)] :
       \E tk \in [1..bs -> SeqsUpTo(TgtKinds, MaxT)] :
          LET outputs == [out_prob   |-> [b \in 1..bs |-> [q \in 1..nq |-> pk[b][q].out_prob]],
                          pred_boxes |-> [b \in 1..bs |-> [q \in 1..nq |-> pk[b][q].box]]]
              tgts == [b \in 1..bs |-> TargetOf(tk[b])]
          IN  \E res \in {MatcherForward(m_cfg, outputs, tgts)} :
              /\ m_outputs' = outputs
              /\ m_targets' = tgts
              /\ IF res.raised # None
                 THEN /\ m_indices' = [raised |-> res.raised]
                      /\ m_pc' = "error"
                 ELSE /\ \E ix \in res.results : m_indices' = [raised |-> None, indices |-> ix]
                      /\ m_pc' = "returned"
    /\ UNCHANGED <<m_cfg, boxVars, xfVars, lossVars, modelVars>>

NextMatcher ==
    \/ ConstructMatcher
    \/ CallMatcherForward

SpecMatcher == InitMatcher /\ [][NextMatcher]_vars

(***************************************************************************)
(* Claims about the matcher (checked under SpecMatcher).                   *)
(***************************************************************************)
NumQueriesOf(i) == Len(m_outputs.pred_boxes[i])

NumTargetsOf(i) == Len(m_targets[i]["boxes"])

\* C1: for every image i, forward returns index sequences of equal length
\* min(Q, T_i), prediction indices in [0, Q), target indices in [0, T_i),
\* none occurring twice; it returns for every batch, empty images included.
C1_MatcherSizeLaw ==
    /\ m_pc # "error"
    /\ m_pc = "returned" =>
          /\ Len(m_indices.indices) = Len(m_targets)
          /\ \A i \in 1..Len(m_targets) :
                LET index_i == m_indices.indices[i][1]
                    index_j == m_indices.indices[i][2]
                IN  /\ Len(index_i) = Min(NumQueriesOf(i), NumTargetsOf(i))
                    /\ Len(index_j) = Len(index_i)
                    /\ \A k \in 1..Len(index_i) :
                          /\ index_i[k] \in 0..(NumQueriesOf(i) - 1)
                          /\ index_j[k] \in 0..(NumTargetsOf(i) - 1)
                    /\ \A k, l \in 1..Len(index_i) :
                          k # l => (index_i[k] # index_i[l] /\ index_j[k] # index_j[l])

\* a batch with an image without targets and an image with more targets
\* than predictions
C1_Witness ==
    /\ m_pc = "returned" /\ Len(m_targets) = 2
    /\ NumTargetsOf(1) = 0 /\ m_indices.indices[1] = <<<<>>, <<>>>>
    /\ NumQueriesOf(2) = 1 /\ NumTargetsOf(2) = 2 /\ Len(m_indices.indices[2][1]) = 1

\* the cost of prediction q against target t of image i (0-based), from the
\* image's own entries alone
OwnCost(i, q, t) ==
    LET pb == m_outputs.pred_boxes[i][q + 1]
        tb == m_targets[i]["boxes"][t + 1]
        g  == generalized_box_iou(<<box_cxcywh_to_xyxy(pb)>>, <<box_cxcywh_to_xyxy(tb)>>)
    IN  RAdd(RAdd(RMul(R(m_cfg.cost_bbox), CostBbox(pb, tb)),
                  RMul(R(m_cfg.cost_class),
                       CostClass(m_cfg, m_outputs.out_prob[i][q + 1],
                                 m_targets[i]["class_labels"][t + 1]))),
             RMul(R(m_cfg.cost_giou), RNeg(g.giou[1][1])))

\* the cost matrix of image i alone
OwnCosts(i) ==
    Matrix([q \in 1..NumQueriesOf(i) |-> [t \in 1..NumTargetsOf(i) |-> OwnCost(i, q - 1, t - 1)]])

ReturnedCost(c, ix) ==
    SumSeq([k \in 1..Len(ix[1]) |-> c[ix[1][k] + 1][ix[2][k] + 1]])

\* every one-to-one assignment of min(Q, T) pairs: the smaller side mapped
\* injectively into the larger one
OneToOne(i) ==
    LET nq == NumQueriesOf(i)
        nt == NumTargetsOf(i)
    IN  IF nq <= nt
        THEN {[q \in 0..(nq - 1) |-> <<q, f[q]>>] :
                 f \in {h \in [0..(nq - 1) -> 0..(nt - 1)] : Injective(h)}}
        ELSE {[t \in 0..(nt - 1) |-> <<f[t], t>>] :
                 f \in {h \in [0..(nt - 1) -> 0..(nq - 1)] : Injective(h)}}

PairsCost(c, pairs) ==
    SumSeq([k \in 1..Cardinality(DOMAIN pairs) |-> c[pairs[k - 1][1] + 1][pairs[k - 1][2] + 1]])

\* C2: the total cost of the returned assignment of image i, on the image's
\* own rows and columns, is the minimum over all one-to-one assignments of
\* min(Q, T_i) pairs.
C2_MatcherOptimal ==
    m_pc = "returned" =>
        \A i \in 1..Len(m_targets) :
            \A c \in {OwnCosts(i)} :
                \A pairs \in OneToOne(i) :
                    RLe(ReturnedCost(c, m_indices.indices[i]), PairsCost(c, pairs))

\* the second image's optimum crosses (prediction 0 takes target 1) and is
\* strictly cheaper than the identity assignment
C2_Witness ==
    /\ m_pc = "returned" /\ Len(m_targets) = 2
    /\ NumQueriesOf(2) = 2 /\ NumTargetsOf(2) = 2
    /\ m_indices.indices[2] = <<<<0, 1>>, <<1, 0>>>>
    /\ m_indices.indices[1] # m_indices.indices[2]
    /\ RLt(ReturnedCost(OwnCosts(2), m_indices.indices[2]),
           RAdd(OwnCost(2, 0, 0), OwnCost(2, 1, 1)))

AllCostsZero(args) ==
    args.class_cost = 0 /\ args.bbox_cost = 0 /\ args.giou_cost = 0

\* C15: constructing the matcher raises ValueError exactly when class_cost,
\* bbox_cost and giou_cost are all zero; with one non-zero weight the
\* construction succeeds and keeps the weights; the matching call never ends
\* in the construction error and leaves the matcher as constructed
C15_MatcherZeroCostsRejected ==
    [][/\ m_pc = "new" =>
            /\ (m_pc' = "init_error") <=> AllCostsZero(m_cfg)
            /\ (m_pc' = "constructed") <=> ~AllCostsZero(m_cfg)
            /\ AllCostsZero(m_cfg) => m_cfg' = [raised |-> "ValueError"]
            /\ ~AllCostsZero(m_cfg) =>
                    /\ m_cfg'.raised = None
                    /\ m_cfg'.cost_class = m_cfg.class_cost
                    /\ m_cfg'.cost_bbox = m_cfg.bbox_cost
                    /\ m_cfg'.cost_giou = m_cfg.giou_cost
       /\ m_pc = "constructed" =>
            /\ m_pc' \in {"returned", "error"}
            /\ m_cfg' = m_cfg
            /\ m_pc' = "error" => m_indices'.raised # "ValueError"
       /\ m_pc = "init_error" => m_pc' = "init_error"]_vars

\* the construction was rejected: no matcher exists, only the error
C15_Witness ==
    m_pc = "init_error" /\ m_cfg = [raised |-> "ValueError"] /\ m_indices = None

(***************************************************************************)
(* RTDetrTransformer.forward: the denoising group, the decoder loop and    *)
(* the output dictionary.  A query is named by where it comes from:        *)
(* <<"dn", k>> is the k-th denoising query, <<"q", k>> the k-th query      *)
(* selected by top-k from the encoder output.                              *)
(***************************************************************************)
MaxDenoising == 4
MaxQueries == 2
MaxLayers == 2
MaxGt == 2

\* Python's None where the other values are tensors, lists or dictionaries
NoTensor == <<>>

MaxOfSeq(s) == CHOOSE x \in {s[k] : k \in 1..Len(s)} : \A k \in 1..Len(s) : s[k] <= x

DnQueries(n) == [k \in 1..n |-> <<"dn", k - 1>>]

TopkQueries(n) == [k \in 1..n |-> <<"q", k - 1>>]

\* mask[r0:r1, c0:c1] = True on an n x n mask (rows and columns from 0)
SetSlice(mask, r0, r1, c0, c1) ==
    Matrix([i \in 1..Len(mask) |-> [j \in 1..Len(mask) |->
        IF r0 <= i - 1 /\ i - 1 < r1 /\ c0 <= j - 1 /\ j - 1 < c1 THEN TRUE ELSE mask[i][j]]])

\* mutant: a group is hidden from the groups after it only
MaskGroupUpperOnly(mask, i, num_group, max_gt_num, num_denoising) ==
    SetSlice(mask, max_gt_num * 2 * i, max_gt_num * 2 * (i + 1),
             max_gt_num * 2 * (i + 1), num_denoising)

\* one iteration of the loop of lines 340-347
MaskGroup(mask, i, num_group, max_gt_num, num_denoising) ==
    LET lo == max_gt_num * 2 * i
        hi == max_gt_num * 2 * (i + 1)
        m1 == IF i = 0 THEN SetSlice(mask, lo, hi, hi, num_denoising) ELSE mask
    IN  IF i = num_group - 1
        THEN SetSlice(m1, lo, hi, 0, max_gt_num * i * 2)
        ELSE SetSlice(SetSlice(m1, lo, hi, hi, num_denoising), lo, hi, 0, lo)

RECURSIVE MaskGroups(_, _, _, _, _)
MaskGroups(mask, i, num_group, max_gt_num, num_denoising) ==
    IF i >= num_group THEN mask
    ELSE MaskGroups(MaskGroup(mask, i, num_group, max_gt_num, num_denoising),
                    i + 1, num_group, max_gt_num, num_denoising)

\* lines 334-347
AttnMask(num_denoising, num_queries, num_group, max_gt_num) ==
    LET tgt_size == num_denoising + num_queries
        full     == [i \in 1..tgt_size |-> [j \in 1..tgt_size |-> FALSE]]
    IN  MaskGroups(SetSlice(full, num_denoising, tgt_size, 0, num_denoising),
                   0, num_group, max_gt_num, num_denoising)

NoDenoising ==
    [raised |-> None, denoising_class |-> NoTensor, denoising_bbox_unact |-> NoTensor,
     attn_mask |-> NoTensor, dn_meta |-> NoTensor]

\* lines 288-296: one row of the padded batch, the image's values first
PadRow(values, max_gt_num, pad) ==
    [t \in 1..max_gt_num |-> IF t <= Len(values) THEN values[t] ELSE pad]

\* x.tile([1, k]) on one row
Tile(row, k) == [j \in 1..(Len(row) * k) |-> row[((j - 1) % Len(row)) + 1]]

\* lines 290-299: True on the positions that hold a ground truth
PadGtMask(num_gt, max_gt_num, num_group) ==
    Tile(PadRow([t \in 1..num_gt |-> TRUE], max_gt_num, FALSE), 2 * num_group)

\* lines 301-303: 1 on the second half of every group
NegativeGtMask(max_gt_num, num_group) ==
    Tile([t \in 1..(2 * max_gt_num) |-> IF t > max_gt_num THEN 1 ELSE 0], num_group)

\* lines 304-306
PositiveGtMask(num_gt, max_gt_num, num_group) ==
    LET negative_gt_mask == NegativeGtMask(max_gt_num, num_group)
        pad_gt_mask      == PadGtMask(num_gt, max_gt_num, num_group)
    IN  [j \in 1..Len(pad_gt_mask) |->
            (1 - negative_gt_mask[j]) * (IF pad_gt_mask[j] THEN 1 ELSE 0)]

\* torch.nonzero(mask)[:, 1]: the column indices (from 0) of the non-zero
\* entries, row after row
NonzeroColumns(mask) ==
    Cat([b \in 1..Len(mask) |->
            SelectSeq([j \in 1..Len(mask[b]) |-> j - 1], LAMBDA c : mask[b][c + 1] # 0)])

\* torch.split(x, sizes)
SplitSizes(x, sizes) ==
    [b \in 1..Len(sizes) |->
        SubSeq(x, SumInts(SubSeq(sizes, 1, b - 1)) + 1, SumInts(SubSeq(sizes, 1, b)))]

\* mutant: the padding mask is left out of the positive mask
DnPositiveIdxNoPad(num_gts, num_group, max_gt_num) ==
    SplitSizes(NonzeroColumns([b \in 1..Len(num_gts) |->
                                  PositiveGtMask(max_gt_num, max_gt_num, num_group)]),
               [b \in 1..Len(num_gts) |-> num_gts[b] * num_group])

\* lines 304-308: per image, the positions of the positive copies of its
\* ground truths in the tiled row
DnPositiveIdx(num_gts, num_group, max_gt_num) ==
    SplitSizes(NonzeroColumns([b \in 1..Len(num_gts) |->
                                  PositiveGtMask(num_gts[b], max_gt_num, num_group)]),
               [b \in 1..Len(num_gts) |-> num_gts[b] * num_group])

\* lines 292-297: the loop that pads the ground truths reads the boxes of
\* every image that has labels; the first such image without the key
\* "boxes" raises KeyError, the first whose boxes cannot be assigned to
\* its num_gt rows (neither num_gt boxes nor one box) raises RuntimeError
PadBoxesRaised(tgts, num_gts) ==
    LET bad == {b \in 1..Len(tgts) :
                   /\ num_gts[b] > 0
                   /\ \/ "boxes" \notin DOMAIN tgts[b]
                      \/ Len(tgts[b]["boxes"]) \notin {num_gts[b], 1}}
    IN  IF bad = {} THEN None
        ELSE LET first == CHOOSE b \in bad : \A o \in bad : b <= o
             IN  IF "boxes" \notin DOMAIN tgts[first] THEN "KeyError" ELSE "RuntimeError"

get_contrastive_denoising_training_group(tgts, num_queries, num_denoising) ==
    IF num_denoising <= 0 THEN NoDenoising
    ELSE IF tgts = NoTensor THEN [raised |-> "TypeError"]
    ELSE IF \E b \in 1..Len(tgts) : "labels" \notin DOMAIN tgts[b] THEN [raised |-> "KeyError"]
    ELSE LET num_gts    == [b \in 1..Len(tgts) |-> Len(tgts[b]["labels"])]
             max_gt_num == MaxOfSeq(num_gts)
         IN  IF max_gt_num = 0 THEN NoDenoising
             ELSE IF PadBoxesRaised(tgts, num_gts) # None
             THEN [raised |-> PadBoxesRaised(tgts, num_gts)]
             ELSE LET g         == num_denoising \div max_gt_num
                      num_group == IF g = 0 THEN 1 ELSE g
                      total     == max_gt_num * 2 * num_group
                  IN  [raised |-> None,
                       denoising_class |-> DnQueries(total),
                       denoising_bbox_unact |-> DnQueries(total),
                       attn_mask |-> AttnMask(total, num_queries, num_group, max_gt_num),
                       dn_meta |-> [dn_positive_idx |-> DnPositiveIdx(num_gts, num_group, max_gt_num),
                                    dn_num_group |-> num_group,
                                    dn_num_split |-> <<total, num_queries>>]]

\* mutant: a negative eval_idx is kept as given
DecoderInitRawIdx(num_layers, eval_idx) ==
    [num_layers |-> num_layers, eval_idx |-> eval_idx]

\* mutant: an eval_idx outside the layer range wraps around
DecoderInitWrapIdx(num_layers, eval_idx) ==
    [num_layers |-> num_layers, eval_idx |-> eval_idx % num_layers]

\* TransformerDecoder.__init__
DecoderInit(num_layers, eval_idx) ==
    [num_layers |-> num_layers,
     eval_idx |-> IF eval_idx >= 0 THEN eval_idx ELSE num_layers + eval_idx]

\* torch.split(x, [a, b], dim=2) on the query dimension
SplitQueries(queries, sizes) ==
    <<SubSeq(queries, 1, sizes[1]), SubSeq(queries, sizes[1] + 1, sizes[1] + sizes[2])>>

\* mutant: the denoising queries are never split off
ForwardOutNoSplit(c, d, stacked) ==
    [logits |-> stacked[Len(stacked)], pred_boxes |-> stacked[Len(stacked)]]

\* lines 1019-1033: the output dictionary from the stacked decoder output
ForwardOut(c, d, stacked) ==
    LET split    == c.training /\ d.dn_meta # NoTensor
        part(l, k) == [layer |-> stacked[l].layer,
                       queries |-> SplitQueries(stacked[l].queries, d.dn_meta.dn_num_split)[k]]
        dn_out   == [l \in 1..Len(stacked) |-> part(l, 1)]
        main     == [l \in 1..Len(stacked) |-> IF split THEN part(l, 2) ELSE stacked[l]]
        enc_topk == [layer |-> "enc", queries |-> TopkQueries(c.num_queries)]
        aux      == SubSeq(main, 1, Len(main) - 1) \o <<enc_topk>>
    IN  IF c.training /\ c.aux_loss
        THEN IF d.dn_meta # NoTensor
             THEN [logits |-> main[Len(main)], pred_boxes |-> main[Len(main)],
                   aux_outputs |-> aux, dn_aux_outputs |-> dn_out, dn_meta |-> d.dn_meta]
             ELSE [logits |-> main[Len(main)], pred_boxes |-> main[Len(main)],
                   aux_outputs |-> aux]
        ELSE [logits |-> main[Len(main)], pred_boxes |-> main[Len(main)]]

\* a target list: per image a mapping with n ground truths under the given
\* label key
TargetsWith(key, counts) ==
    [b \in 1..Len(counts) |->
        [k \in {key, "boxes"} |->
            IF k = "boxes" THEN [t \in 1..counts[b] |-> Eighths(4, 4, 4, 4)]
            ELSE [t \in 1..counts[b] |-> 0]]]

TargetChoices ==
    {NoTensor} \cup {TargetsWith(key, counts) :
                    key \in {"labels", "class_labels"},
                    counts \in UNION {[1..bs -> 0..MaxGt] : bs \in Batches}}

\* a constructed RTDetrTransformer, in training or evaluation mode
Init ==
    /\ pc = "constructed"
    /\ \E training, aux_loss \in BOOLEAN, num_denoising \in (-1)..MaxDenoising,
          num_queries \in 1..MaxQueries, num_layers \in 1..MaxLayers :
       \E eval_idx \in (-(num_layers + 1))..num_layers :
          cfg = [training |-> training, aux_loss |-> aux_loss,
                 num_denoising |-> num_denoising, num_queries |-> num_queries,
                 eval_idx |-> eval_idx, decoder |-> DecoderInit(num_layers, eval_idx)]
    /\ targets = NoTensor /\ dn = NoTensor /\ dec = NoTensor /\ out = NoTensor
    /\ IdleBox /\ IdleMatcher /\ IdleLoss /\ IdleModel

\* the builder called on its own
CallDenoisingGroup ==
    /\ pc = "constructed"
    /\ \E tg \in TargetChoices :
          /\ targets' = tg
          /\ dn' = get_contrastive_denoising_training_group(tg, cfg.num_queries, cfg.num_denoising)
    /\ pc' = "built"
    /\ UNCHANGED <<cfg, dec, out, boxVars, matchVars, lossVars, modelVars>>

\* forward up to the decoder call (lines 922-1004)
ForwardPrepare ==
    /\ pc = "constructed"
    /\ \E tg \in TargetChoices :
       \E r \in {IF cfg.training /\ cfg.num_denoising > 0
                 THEN get_contrastive_denoising_training_group(tg, cfg.num_queries, cfg.num_denoising)
                 ELSE NoDenoising} :
          /\ targets' = tg
          /\ dn' = r
          /\ IF r.raised # None
             THEN /\ pc' = "error"
                  /\ out' = [raised |-> r.raised]
                  /\ dec' = dec
             ELSE /\ pc' = "decoder"
                  /\ out' = out
                  /\ dec' = [i |-> 0, executed |-> <<>>, dec_out |-> <<>>, stacked |-> NoTensor,
                             target |-> (IF r.denoising_class # NoTensor THEN r.denoising_class ELSE <<>>)
                                            \o TopkQueries(cfg.num_queries),
                             attn_mask |-> r.attn_mask]
    /\ UNCHANGED <<cfg, boxVars, matchVars, lossVars, modelVars>>

\* one iteration of the decoder loop (lines 731-760)
DecoderLayer ==
    /\ pc = "decoder"
    /\ dec.i < cfg.decoder.num_layers
    /\ LET i       == dec.i
           pred    == [layer |-> i, queries |-> dec.target]
           collect == cfg.training \/ i = cfg.decoder.eval_idx
           break   == ~cfg.training /\ i = cfg.decoder.eval_idx
       IN  /\ dec' = [dec EXCEPT !.i = IF break THEN i ELSE i + 1,
                                 !.executed = Append(@, i),
                                 !.dec_out = IF collect THEN Append(@, pred) ELSE @]
           /\ pc' = IF break \/ i + 1 >= cfg.decoder.num_layers THEN "stack" ELSE "decoder"
    /\ UNCHANGED <<cfg, targets, dn, out, boxVars, matchVars, lossVars, modelVars>>

\* torch.stack of the collected predictions (line 762)
DecoderReturn ==
    /\ pc = "stack"
    /\ IF dec.dec_out = <<>>
       THEN /\ pc' = "error"
            /\ out' = [raised |-> "RuntimeError"]
            /\ dec' = dec
       ELSE /\ pc' = "output"
            /\ out' = out
            /\ dec' = [dec EXCEPT !.stacked = dec.dec_out]
    /\ UNCHANGED <<cfg, targets, dn, boxVars, matchVars, lossVars, modelVars>>

\* lines 1019-1033
ForwardReturn ==
    /\ pc = "output"
    /\ out' = ForwardOut(cfg, dn, dec.stacked)
    /\ pc' = "done"
    /\ UNCHANGED <<cfg, targets, dn, dec, boxVars, matchVars, lossVars, modelVars>>

Next ==
    \/ CallDenoisingGroup
    \/ ForwardPrepare
    \/ DecoderLayer
    \/ DecoderReturn
    \/ ForwardReturn

Spec == Init /\ [][Next]_vars

(***************************************************************************)
(* Claims about the denoising group, the decoder and the forward output    *)
(* (checked under Spec).                                                   *)
(***************************************************************************)
NumGtOf(b) == Len(targets[b]["boxes"])

MaskBuilt == dn # NoTensor /\ dn.raised = None /\ dn.attn_mask # NoTensor

\* C3: the attention mask is square of side D + num_queries with
\* D = 2 * m * G (m the largest ground-truth count, G = max(1,
\* num_denoising div m)), and entry [i][j] is True exactly when
\* (i >= D and j < D) or (i < D and j < D and i div 2m # j div 2m).
C3_DenoisingMaskStructure ==
    MaskBuilt =>
        LET m == MaxOfSeq([b \in 1..Len(targets) |-> NumGtOf(b)])
            G == IF cfg.num_denoising \div m >= 1 THEN cfg.num_denoising \div m ELSE 1
            D == 2 * m * G
            n == D + cfg.num_queries
        IN  /\ m >= 1
            /\ Len(dn.attn_mask) = n
            /\ \A i \in 0..(n - 1) :
                  /\ Len(dn.attn_mask[i + 1]) = n
                  /\ \A j \in 0..(n - 1) :
                        dn.attn_mask[i + 1][j + 1] =
                            (\/ i >= D /\ j < D
                             \/ i < D /\ j < D /\ (i \div (2 * m)) # (j \div (2 * m)))

\* two groups of two positive and two negative queries, two match queries
C3_Witness ==
    /\ MaskBuilt
    /\ dn.dn_meta.dn_num_group = 2 /\ dn.dn_meta.dn_num_split = <<8, 2>>
    /\ dn.attn_mask[1][5] /\ dn.attn_mask[5][1] /\ dn.attn_mask[9][1]
    /\ ~dn.attn_mask[1][4] /\ ~dn.attn_mask[1][9] /\ ~dn.attn_mask[9][10]

SpecTargets ==
    /\ targets # NoTensor
    /\ \A b \in 1..Len(targets) : DOMAIN targets[b] = {"class_labels", "boxes"}

AllNone(d) ==
    /\ d.denoising_class = NoTensor /\ d.denoising_bbox_unact = NoTensor
    /\ d.attn_mask = NoTensor /\ d.dn_meta = NoTensor

AllPresent(d) ==
    /\ d.denoising_class # NoTensor /\ d.denoising_bbox_unact # NoTensor
    /\ d.attn_mask # NoTensor /\ d.dn_meta # NoTensor

\* C4: called on a target list of {class_labels, boxes} mappings, the builder
\* returns; its four outputs are all None if and only if num_denoising <= 0
\* or every image has zero ground truths, and all non-None otherwise.
C4_NoneIffDegenerate ==
    (pc = "built" /\ SpecTargets) =>
        /\ dn.raised = None
        /\ AllNone(dn) <=> (cfg.num_denoising <= 0 \/ \A b \in 1..Len(targets) : NumGtOf(b) = 0)
        /\ ~AllNone(dn) => AllPresent(dn)

EvalIdxInRange ==
    cfg.eval_idx \in (-cfg.decoder.num_layers)..(cfg.decoder.num_layers - 1)

\* the layer eval_idx names, negative values counted from the end
EvalLayer ==
    IF cfg.eval_idx >= 0 THEN cfg.eval_idx ELSE cfg.decoder.num_layers + cfg.eval_idx

LayersOf(preds) == [k \in 1..Len(preds) |-> preds[k].layer]

DecoderLoopOver == pc \in {"stack", "output", "done"}

\* C5: with eval_idx in [-num_layers, num_layers - 1]: in training mode all
\* layers run and the stacked output holds the num_layers predictions in
\* layer order; in evaluation mode no layer after eval_idx is ever executed
\* and the stacked output holds exactly the prediction of layer eval_idx.
C5_DecoderLayers ==
    (dec # NoTensor /\ EvalIdxInRange) =>
        /\ pc # "error"
        /\ cfg.training =>
              /\ DecoderLoopOver =>
                    dec.executed = [k \in 1..cfg.decoder.num_layers |-> k - 1]
              /\ dec.stacked # NoTensor =>
                    LayersOf(dec.stacked) = [k \in 1..cfg.decoder.num_layers |-> k - 1]
        /\ ~cfg.training =>
              /\ \A k \in 1..Len(dec.executed) : dec.executed[k] <= EvalLayer
              /\ DecoderLoopOver => dec.executed = [k \in 1..(EvalLayer + 1) |-> k - 1]
              /\ dec.stacked # NoTensor => LayersOf(dec.stacked) = <<EvalLayer>>
        /\ pc \in {"output", "done"} => dec.stacked # NoTensor

\* evaluation with two layers and eval_idx = -2: only layer 0 ran
C5_Witness ==
    /\ pc = "done" /\ ~cfg.training
    /\ cfg.decoder.num_layers = 2 /\ cfg.eval_idx = -2
    /\ dec.executed = <<0>> /\ LayersOf(dec.stacked) = <<0>>

\* C6: the main output has exactly the num_queries selected queries; a
\* denoising group of D queries prepended in training is exactly what is
\* split off; with no group (builder returned None, or evaluation) nothing
\* is split off, the decoder ran without attention mask and the output has
\* neither dn_aux_outputs nor dn_meta.
C6_MainOutputQueries ==
    pc = "done" =>
        /\ out.logits.queries = TopkQueries(cfg.num_queries)
        /\ out.pred_boxes.queries = TopkQueries(cfg.num_queries)
        /\ IF cfg.training /\ dn.dn_meta # NoTensor
           THEN LET D == dn.dn_meta.dn_num_split[1]
                IN  /\ Len(dn.denoising_class) = D
                    /\ dec.target = DnQueries(D) \o TopkQueries(cfg.num_queries)
                    /\ cfg.aux_loss =>
                          /\ "dn_aux_outputs" \in DOMAIN out
                          /\ Len(out.dn_aux_outputs) = Len(dec.stacked)
                          /\ \A l \in 1..Len(out.dn_aux_outputs) :
                                out.dn_aux_outputs[l].queries = SubSeq(dec.target, 1, D)
                          /\ out.dn_meta = dn.dn_meta
           ELSE /\ dec.target = TopkQueries(cfg.num_queries)
                /\ dec.attn_mask = NoTensor
                /\ "dn_aux_outputs" \notin DOMAIN out
                /\ "dn_meta" \notin DOMAIN out

\* a training forward with four denoising queries in front of two selected ones
C6_Witness ==
    /\ pc = "done" /\ cfg.training /\ cfg.aux_loss
    /\ dn.dn_meta # NoTensor /\ Len(dn.denoising_class) = 4
    /\ Len(dec.target) = 6 /\ Len(out.logits.queries) = 2
    /\ "dn_meta" \in DOMAIN out

(***************************************************************************)
(* RTDetrLoss.  A tensor is named by its shape only; a loss value is kept  *)
(* symbolically: the term it comes from, the box count it was normalised   *)
(* by, and the weights that were multiplied onto it, in order.  A dict is  *)
(* a function; loss-dict keys are tuples: <<"loss_vfl">> is "loss_vfl",    *)
(* <<"loss_vfl", i>> is "loss_vfl_i".                                      *)
(***************************************************************************)
MaxAux == 2

MaxClasses == 2

\* a tensor of shape [bs, nq, dim]
Tensor(bs, nq, dim) == [bs |-> bs, nq |-> nq, dim |-> dim]

IsTensor(v) == DOMAIN v = {"bs", "nq", "dim"}

EmptyDict == <<>>

\* dict.update
Update(d, e) == [k \in DOMAIN d \cup DOMAIN e |-> IF k \in DOMAIN e THEN e[k] ELSE d[k]]

\* torch.clamp(num_boxes, min=1), line 1332
ClampMin1(n) == IF n < 1 THEN 1 ELSE n

\* num_boxes is 0 for a term that is not normalised by the box count
LossValue(term, num_boxes, factors) ==
    [term |-> term, num_boxes |-> num_boxes, factors |-> factors]

\* the key reads of RTDetrHungarianMatcher.forward (lines 1760, 1768, 1771,
\* 1772) and the number of pairs it returns per image (line 1796)
MatcherCall(outputs, tgts) ==
    IF "logits" \notin DOMAIN outputs.val \/ "pred_boxes" \notin DOMAIN outputs.val
    THEN [raised |-> "KeyError"]
    ELSE IF \E i \in 1..Len(tgts) : "class_labels" \notin DOMAIN tgts[i]
                                    \/ "boxes" \notin DOMAIN tgts[i]
    THEN [raised |-> "KeyError"]
    ELSE [raised |-> None,
          indices |-> [i \in 1..Len(tgts) |->
                          Min(outputs.val["logits"].nq, Len(tgts[i]["boxes"]))]]

HasKey(tgts, key) == \A i \in 1..Len(tgts) : key \in DOMAIN tgts[i]

\* RTDetrLoss.loss_labels_vfl, lines 1135-1164.  The one-hot target has
\* num_classes columns (line 1153): logits of another width fail in the
\* products of line 1159 (RuntimeError), or, where a width of 1 makes
\* them broadcast, in binary_cross_entropy_with_logits (ValueError, 1161)
loss_labels_vfl(crit, outputs, tgts, indices, num_boxes) ==
    IF "pred_boxes" \notin DOMAIN outputs.val THEN [raised |-> "KeyError"]
    ELSE IF "logits" \notin DOMAIN outputs.val THEN [raised |-> "KeyError"]
    ELSE IF ~HasKey(tgts, "boxes") \/ ~HasKey(tgts, "class_labels") THEN [raised |-> "KeyError"]
    ELSE IF outputs.val["logits"].dim # crit.num_classes
    THEN [raised |-> IF outputs.val["logits"].dim = 1 \/ crit.num_classes = 1
                     THEN "ValueError" ELSE "RuntimeError"]
    ELSE [raised |-> None,
          l_dict |-> [k \in {<<"loss_vfl">>} |-> LossValue("loss_vfl", num_boxes, <<>>)]]

\* RTDetrLoss.loss_labels, lines 1166-1184.  empty_weight has
\* num_classes + 1 entries (line 1128): F.cross_entropy (line 1182) raises
\* RuntimeError on logits of any other width, the num_classes columns of the
\* model's own heads (lines 846, 851) included
loss_labels(crit, outputs, tgts, indices, num_boxes) ==
    IF "logits" \notin DOMAIN outputs.val THEN [raised |-> "KeyError"]
    ELSE IF ~HasKey(tgts, "class_labels") THEN [raised |-> "KeyError"]
    ELSE IF outputs.val["logits"].dim # crit.num_classes + 1 THEN [raised |-> "RuntimeError"]
    ELSE [raised |-> None,
          l_dict |-> [k \in {<<"loss_ce">>} |-> LossValue("loss_ce", 0, <<>>)]]

\* RTDetrLoss.loss_cardinality, lines 1187-1199
loss_cardinality(outputs, tgts, indices, num_boxes) ==
    IF "logits" \notin DOMAIN outputs.val THEN [raised |-> "KeyError"]
    ELSE IF ~HasKey(tgts, "class_labels") THEN [raised |-> "KeyError"]
    ELSE [raised |-> None,
          l_dict |-> [k \in {<<"cardinality_error">>} |->
                         LossValue("cardinality_error", 0, <<>>)]]

\* RTDetrLoss.loss_boxes, lines 1201-1222
loss_boxes(outputs, tgts, indices, num_boxes) ==
    IF "pred_boxes" \notin DOMAIN outputs.val THEN [raised |-> "KeyError"]
    ELSE IF ~HasKey(tgts, "boxes") THEN [raised |-> "KeyError"]
    ELSE [raised |-> None,
          l_dict |-> [k \in {<<"loss_bbox">>, <<"loss_giou">>} |->
                         LossValue(k[1], num_boxes, <<>>)]]

\* RTDetrLoss.loss_masks, lines 1224-1253
loss_masks(outputs, tgts, indices, num_boxes) ==
    IF "pred_masks" \notin DOMAIN outputs.val THEN [raised |-> "KeyError"]
    ELSE IF ~HasKey(tgts, "masks") THEN [raised |-> "KeyError"]
    ELSE [raised |-> None,
          l_dict |-> [k \in {<<"loss_mask">>, <<"loss_dice">>} |->
                         LossValue(k[1], num_boxes, <<>>)]]

\* RTDetrLoss.loss_labels_bce, lines 1255-1267: the one-hot target has
\* num_classes columns, binary_cross_entropy_with_logits (line 1265) raises
\* ValueError on logits of another width
loss_labels_bce(crit, outputs, tgts, indices, num_boxes) ==
    IF "logits" \notin DOMAIN outputs.val THEN [raised |-> "KeyError"]
    ELSE IF ~HasKey(tgts, "labels") THEN [raised |-> "KeyError"]
    ELSE IF outputs.val["logits"].dim # crit.num_classes THEN [raised |-> "ValueError"]
    ELSE [raised |-> None,
          l_dict |-> [k \in {<<"loss_bce">>} |-> LossValue("loss_bce", num_boxes, <<>>)]]

\* RTDetrLoss.loss_labels_focal, lines 1281-1297: sigmoid_focal_loss (line
\* 1064) takes no `reduction` argument, the call at line 1295 cannot return
loss_labels_focal(outputs, tgts, indices, num_boxes) ==
    IF "logits" \notin DOMAIN outputs.val THEN [raised |-> "KeyError"]
    ELSE IF ~HasKey(tgts, "labels") THEN [raised |-> "KeyError"]
    ELSE [raised |-> "TypeError"]

LossMap == {"labels", "cardinality", "boxes", "masks", "bce", "focal", "vfl"}

\* RTDetrLoss.get_loss, lines 1299-1311
get_loss(crit, loss, outputs, tgts, indices, num_boxes) ==
    IF loss \notin LossMap THEN [raised |-> "ValueError"]
    ELSE CASE loss = "labels"      -> loss_labels(crit, outputs, tgts, indices, num_boxes)
           [] loss = "cardinality" -> loss_cardinality(outputs, tgts, indices, num_boxes)
           [] loss = "boxes"       -> loss_boxes(outputs, tgts, indices, num_boxes)
           [] loss = "masks"       -> loss_masks(outputs, tgts, indices, num_boxes)
           [] loss = "bce"         -> loss_labels_bce(crit, outputs, tgts, indices, num_boxes)
           [] loss = "focal"       -> loss_labels_focal(outputs, tgts, indices, num_boxes)
           [] loss = "vfl"         -> loss_labels_vfl(crit, outputs, tgts, indices, num_boxes)

\* line 1338: the terms that have a weight, each multiplied by it
Weighted(weight_dict, l_dict) ==
    [k \in DOMAIN l_dict \cap DOMAIN weight_dict |->
        [l_dict[k] EXCEPT !.factors = Append(@, weight_dict[k])]]

\* line 1350: every key gets the suffix _i
Suffixed(l_dict, i) ==
    [k \in {Append(j, i) : j \in DOMAIN l_dict} |-> l_dict[<<k[1]>>]]

\* lines 1354-1373: the assertion on dn_meta, then the call of
\* self.get_cdn_matched_indices, a method the class does not have
DnLosses(outputs, losses) ==
    IF "dn_aux_outputs" \notin DOMAIN outputs.val THEN [raised |-> None, losses |-> losses]
    ELSE IF "dn_meta" \notin DOMAIN outputs.val THEN [raised |-> "AssertionError"]
    ELSE [raised |-> "AttributeError"]

WithoutKey(outputs, key) ==
    [order |-> SelectSeq(outputs.order, LAMBDA k : k # key),
     val   |-> [k \in DOMAIN outputs.val \ {key} |-> outputs.val[k]]]

\* variant: a loss term that fails is skipped and the loop goes on
RECURSIVE LossLoopSkipFailed(_, _, _, _, _, _, _, _)
LossLoopSkipFailed(crit, k, outputs, tgts, indices, num_boxes, layer, losses) ==
    IF k > Len(crit.losses) THEN [raised |-> None, losses |-> losses]
    ELSE LET r == get_loss(crit, crit.losses[k], outputs, tgts, indices, num_boxes)
         IN  LossLoopSkipFailed(crit, k + 1, outputs, tgts, indices, num_boxes, layer,
                                IF r.raised # None \/ (layer >= 0 /\ crit.losses[k] = "masks")
                                THEN losses
                                ELSE Update(losses,
                                            IF layer < 0 THEN Weighted(crit.weight_dict, r.l_dict)
                                            ELSE Suffixed(r.l_dict, layer)))

\* the loop over self.losses of lines 1336-1339 (layer = -1: the last
\* layer's outputs) and of lines 1345-1351 (layer = i: auxiliary output i),
\* from the k-th requested loss on
RECURSIVE LossLoop(_, _, _, _, _, _, _, _)
LossLoop(crit, k, outputs, tgts, indices, num_boxes, layer, losses) ==
    IF k > Len(crit.losses) THEN [raised |-> None, losses |-> losses]
    ELSE IF layer >= 0 /\ crit.losses[k] = "masks"
    THEN LossLoop(crit, k + 1, outputs, tgts, indices, num_boxes, layer, losses)
    ELSE LET r == get_loss(crit, crit.losses[k], outputs, tgts, indices, num_boxes)
         IN  IF r.raised # None THEN [raised |-> r.raised]
             ELSE LossLoop(crit, k + 1, outputs, tgts, indices, num_boxes, layer,
                           Update(losses,
                                  IF layer < 0 THEN Weighted(crit.weight_dict, r.l_dict)
                                  ELSE Suffixed(r.l_dict, layer)))

\* lines 1342-1351: one matching and one pass over the losses per auxiliary
\* output, from the i-th one on (i counts from 0)
RECURSIVE AuxLoop(_, _, _, _, _, _)
AuxLoop(crit, i, aux, tgts, num_boxes, losses) ==
    IF i >= Len(aux) THEN [raised |-> None, losses |-> losses]
    ELSE LET m == MatcherCall(aux[i + 1], tgts)
         IN  IF m.raised # None THEN [raised |-> m.raised]
             ELSE LET r == LossLoop(crit, 1, aux[i + 1], tgts, m.indices, num_boxes, i, losses)
                  IN  IF r.raised # None THEN r
                      ELSE AuxLoop(crit, i + 1, aux, tgts, num_boxes, r.losses)

\* RTDetrLoss.forward, lines 1313-1375
LossForward(crit, outputs, tgts) ==
    LET m == MatcherCall(WithoutKey(outputs, "auxiliary_outputs"), tgts)
    IN  IF m.raised # None THEN [raised |-> m.raised]
        \* line 1331: the device of the first value of the dict
        ELSE IF ~IsTensor(outputs.val[outputs.order[1]]) THEN [raised |-> "AttributeError"]
        ELSE
        LET num_boxes == ClampMin1(SumInts([i \in 1..Len(tgts) |-> Len(tgts[i]["class_labels"])]))
            main == LossLoop(crit, 1, outputs, tgts, m.indices, num_boxes, -1, EmptyDict)
        IN  IF main.raised # None THEN main
            ELSE
            LET aux == IF "auxiliary_outputs" \in DOMAIN outputs.val
                       THEN AuxLoop(crit, 0, outputs.val["auxiliary_outputs"].list,
                                    tgts, num_boxes, main.losses)
                       ELSE main
            IN  IF aux.raised # None THEN aux
                ELSE DnLosses(outputs, aux.losses)

\* the inputs the model draws
OutputKeys == <<"logits", "pred_boxes", "pred_masks", "auxiliary_outputs", "dn_aux_outputs", "dn_meta">>

Reverse(s) == [i \in 1..Len(s) |-> s[Len(s) + 1 - i]]

\* a dict with the given keys in the given order
Dict(order, value) == [order |-> order, val |-> [k \in {order[i] : i \in 1..Len(order)} |-> value[k]]]

\* the outputs of one decoder layer, the logits with nc columns; `lacking`
\* is a key it does not have
LayerOutputs(bs, nq, nc, lacking) ==
    Dict(SelectSeq(<<"logits", "pred_boxes">>, LAMBDA k : k # lacking),
         [k \in {"logits", "pred_boxes"} |-> Tensor(bs, nq, IF k = "logits" THEN nc ELSE 4)])

OutputsOf(order, bs, nq, nc, aux) ==
    Dict(order, [k \in {OutputKeys[i] : i \in 1..Len(OutputKeys)} |->
        CASE k = "logits" -> Tensor(bs, nq, nc)
          [] k = "pred_boxes" -> Tensor(bs, nq, 4)
          [] k = "pred_masks" -> Tensor(bs, nq, 1)
          [] k = "auxiliary_outputs" -> [list |-> aux]
          [] k = "dn_aux_outputs" -> [list |-> <<LayerOutputs(bs, nq, nc, "")>>]
          [] k = "dn_meta" -> [dn_num_group |-> 1]])

AuxChoices(bs, nq, nc) ==
    {[i \in 1..MaxAux |-> LayerOutputs(bs, nq, nc, "")],
     <<LayerOutputs(bs, nq, nc, "pred_boxes")>>}

OutputChoices(bs, nq, nc) ==
    {OutputsOf(order, bs, nq, nc, aux) :
        order \in UNION {{o, Reverse(o)} :
                    o \in {SelectSeq(OutputKeys, LAMBDA k : k \in K) : K \in (SUBSET {OutputKeys[i] : i \in 1..Len(OutputKeys)}) \ {{}}}},
        aux \in AuxChoices(bs, nq, nc)}

\* the dictionary RTDetrTransformer.forward returns (lines 1019-1033), as
\* RTDetrLoss.forward reads it: keys in insertion order, every layer output
\* a dict of logits (num_classes columns, lines 846 and 851) and pred_boxes
AsOutputs(o, bs, num_classes) ==
    LET layer(p) == LayerOutputs(bs, Len(p.queries), num_classes, "")
    IN  Dict(SelectSeq(<<"logits", "pred_boxes", "aux_outputs", "dn_aux_outputs", "dn_meta">>,
                       LAMBDA k : k \in DOMAIN o),
             [k \in DOMAIN o |->
                 CASE k = "logits" -> Tensor(bs, Len(o[k].queries), num_classes)
                   [] k = "pred_boxes" -> Tensor(bs, Len(o[k].queries), 4)
                   [] k \in {"aux_outputs", "dn_aux_outputs"} ->
                          [list |-> [i \in 1..Len(o[k]) |-> layer(o[k][i])]]
                   [] k = "dn_meta" -> [dn_num_group |-> o[k].dn_num_group]])

\* what a training-mode forward with aux_loss returns for MaxLayers decoder
\* layers, without and with a denoising group
TransformerOutputs(bs, nq, num_classes) ==
    {AsOutputs(ForwardOut([training |-> TRUE, aux_loss |-> TRUE, num_queries |-> nq], d,
                          [l \in 1..MaxLayers |->
                              [layer |-> l - 1,
                               queries |-> (IF d.denoising_class # NoTensor
                                            THEN d.denoising_class ELSE <<>>)
                                               \o TopkQueries(nq)]]),
               bs, num_classes) :
        d \in {NoDenoising,
               get_contrastive_denoising_training_group(
                   TargetsWith("labels", [b \in 1..bs |-> 1]), nq, 1)}}

\* targets with the given keys and counts[i] ground truths in image i
LossTargets(keys, counts) ==
    [i \in 1..Len(counts) |-> [k \in keys |-> [t \in 1..counts[i] |-> <<k, t>>]]]

TargetKeySets ==
    {{"class_labels", "boxes"}, {"labels", "boxes"}, {"class_labels", "labels", "boxes"},
     {"class_labels", "boxes", "masks"}}

LossLists ==
    {<<"vfl", "boxes">>, <<"labels", "boxes", "cardinality">>, <<"boxes", "masks">>,
     <<"masks", "vfl">>, <<"bce">>, <<"focal">>, <<"vfl", "dice">>, <<>>}

\* RTDetrModel.forward, lines 1664-1667, and a weight for every term
WeightDicts ==
    {[k \in {<<"loss_vfl">>, <<"loss_bbox">>, <<"loss_giou">>} |->
        CASE k = <<"loss_vfl">> -> 1 [] k = <<"loss_bbox">> -> 5 [] k = <<"loss_giou">> -> 2],
     [k \in {<<"loss_vfl">>, <<"loss_bbox">>, <<"loss_giou">>, <<"loss_ce">>, <<"loss_bce">>,
             <<"loss_mask">>, <<"loss_dice">>} |-> 2]}

\* RTDetrLoss.__init__, lines 1119-1133
LossInit(weight_dict, losses, num_classes) ==
    [weight_dict |-> weight_dict, losses |-> losses, num_classes |-> num_classes]

InitLoss ==
    /\ l_pc = "constructed"
    /\ \E w \in WeightDicts, ls \in LossLists, num_classes \in 1..MaxClasses :
          l_crit = LossInit(w, ls, num_classes)
    /\ l_outputs = None /\ l_targets = None /\ l_res = None
    /\ IdleBox /\ IdleMatcher /\ IdleTransformer /\ IdleModel

\* one call of RTDetrLoss.forward
CallLossForward ==
    /\ l_pc = "constructed"
    /\ \E bs \in Batches, keys \in TargetKeySets :
       \E counts \in [1..bs -> {0, MaxGt}],
          outputs \in UNION {OutputChoices(bs, MaxQueries, nc) :
                                 nc \in {l_crit.num_classes, l_crit.num_classes + 1}}
                      \cup TransformerOutputs(bs, MaxQueries, l_crit.num_classes) :
          LET tgts == LossTargets(keys, counts)
          IN  \E res \in {LossForward(l_crit, outputs, tgts)} :
              /\ l_outputs' = outputs
              /\ l_targets' = tgts
              /\ l_res' = res
              /\ l_pc' = IF res.raised = None THEN "returned" ELSE "error"
    /\ UNCHANGED <<l_crit, boxVars, matchVars, xfVars, modelVars>>

NextLoss == CallLossForward

SpecLoss == InitLoss /\ [][NextLoss]_vars

(***************************************************************************)
(* Claims about RTDetrLoss.forward (checked under SpecLoss).               *)
(***************************************************************************)
LossCalled == l_pc \in {"returned", "error"}

\* the output key each loss term needs
RequiredKeys(loss) ==
    CASE loss = "vfl" -> {"pred_boxes", "logits"}
      [] loss = "boxes" -> {"pred_boxes"}
      [] loss = "masks" -> {"pred_masks"}
      [] loss \in {"labels", "cardinality", "bce", "focal"} -> {"logits"}
      [] OTHER -> {}

RequiredKeyAbsent ==
    \E k \in 1..Len(l_crit.losses) :
        ~(RequiredKeys(l_crit.losses[k]) \subseteq DOMAIN l_outputs.val)

\* the terms each loss computes
TermsOf(loss) ==
    CASE loss = "vfl" -> {"loss_vfl"}
      [] loss = "boxes" -> {"loss_bbox", "loss_giou"}
      [] loss = "masks" -> {"loss_mask", "loss_dice"}
      [] loss = "labels" -> {"loss_ce"}
      [] loss = "cardinality" -> {"cardinality_error"}
      [] loss = "bce" -> {"loss_bce"}
      [] OTHER -> {}

Requested == {l_crit.losses[k] : k \in 1..Len(l_crit.losses)}

NumAux ==
    IF "auxiliary_outputs" \in DOMAIN l_outputs.val
    THEN Len(l_outputs.val["auxiliary_outputs"].list) ELSE 0

\* the keys of a complete loss dictionary: every weighted term of every
\* requested loss, and per auxiliary output every term of every requested
\* loss but the mask loss
CompleteKeys ==
    ({<<t>> : t \in UNION {TermsOf(l) : l \in Requested}} \cap DOMAIN l_crit.weight_dict)
    \cup {<<t, i>> : t \in UNION {TermsOf(l) : l \in Requested \ {"masks"}}, i \in 0..(NumAux - 1)}

\* C18: RTDetrLoss.forward ends in an error, returning nothing, whenever a
\* requested loss term's required output key is absent and whenever
\* dn_aux_outputs is present without dn_meta; what it returns is always the
\* complete loss dictionary, never a part of it
C18_LossAbortsOnMissingKey ==
    LossCalled =>
        /\ RequiredKeyAbsent => l_pc = "error"
        /\ ("dn_aux_outputs" \in DOMAIN l_outputs.val /\ "dn_meta" \notin DOMAIN l_outputs.val)
              => l_pc = "error"
        /\ l_pc = "error" => l_res.raised # None /\ DOMAIN l_res = {"raised"}
        /\ l_pc = "returned" => l_res.raised = None /\ DOMAIN l_res.losses = CompleteKeys

\* the mask loss was requested after the box loss, on outputs that have boxes
\* but no masks and on targets that have masks: the call failed although the
\* box terms had already been computed
C18_Witness ==
    /\ l_pc = "error" /\ l_crit.losses = <<"boxes", "masks">>
    /\ DOMAIN l_outputs.val = {"logits", "pred_boxes"}
    /\ \A i \in 1..Len(l_targets) : "masks" \in DOMAIN l_targets[i]
    /\ l_res = [raised |-> "KeyError"]

(***************************************************************************)
(* The target format across the consumers of targets.                      *)
(***************************************************************************)
HasSpecKeys(tgts) ==
    \A b \in 1..Len(tgts) : DOMAIN tgts[b] = {"class_labels", "boxes"}

\* C13: on targets whose per-image mappings have exactly the keys
\* class_labels and boxes, neither the denoising group builder, nor the
\* matcher, nor the vfl and boxes loss terms fail with a missing-key error
C13_SpecTargetsAccepted ==
    /\ (pc \in {"built", "error"} /\ SpecTargets) => dn.raised # "KeyError"
    /\ (m_pc \in {"returned", "error"} /\ HasSpecKeys(m_targets)) =>
            m_indices.raised # "KeyError"
    /\ (LossCalled /\ HasSpecKeys(l_targets) /\ l_crit.losses = <<"vfl", "boxes">>
            /\ DOMAIN l_outputs.val = {"logits", "pred_boxes"}) =>
            l_res.raised # "KeyError"

(***************************************************************************)
(* HybridEncoder, the flattening and the anchors of RTDetrTransformer, and *)
(* RTDetrModel.  A feature map is its tensor shape <<b, c, h, w>>; lengths  *)
(* are in units of the smallest stride.  Python list positions count from  *)
(* 0.                                                                      *)
(***************************************************************************)
MaxSide == 2

Sides == 1..MaxSide

\* feat.shape[2:] (line 1506), feat.shape[-2:] (line 938)
SpatialShape(feat) == <<feat[3], feat[4]>>

\* nn.Sequential(nn.Conv2d, nn.BatchNorm2d) applied to one feature map (lines
\* 1422-1428, 881-897, 358-373): the convolution wants channels_in channels
\* (RuntimeError otherwise) and halves the map when it is the 3x3 one of
\* stride 2 and padding 1; in training mode the batch norm wants more than
\* one value per channel (ValueError otherwise)
ConvNorm(training, feat, channels_in, channels_out, strided) ==
    IF feat[2] # channels_in THEN [raised |-> "RuntimeError"]
    ELSE LET h == IF strided THEN (feat[3] - 1) \div 2 + 1 ELSE feat[3]
             w == IF strided THEN (feat[4] - 1) \div 2 + 1 ELSE feat[4]
         IN  IF training /\ feat[1] * h * w = 1 THEN [raised |-> "ValueError"]
             ELSE [raised |-> None, feat |-> <<feat[1], channels_out, h, w>>]

\* HybridEncoder.build_2d_sincos_position_embedding, lines 1484-1497: one
\* embedding per position of the w x h grid
build_2d_sincos_position_embedding(w, h, embed_dim) ==
    IF embed_dim % 4 # 0 THEN [raised |-> "ValueError"]
    ELSE [raised |-> None, grid |-> <<h, w>>, positions |-> w * h]

\* HybridEncoder._reset_parameters, lines 1474-1481: the embeddings cached
\* for eval_size, by encoder index
EncoderResetParameters(config) ==
    IF config.eval_size = NoTensor THEN [raised |-> None, pos_embed |-> EmptyDict]
    ELSE LET built == [idx \in {config.use_encoder_idx[k] : k \in 1..Len(config.use_encoder_idx)} |->
                          build_2d_sincos_position_embedding(
                              config.eval_size[2] \div config.feat_strides[idx + 1],
                              config.eval_size[1] \div config.feat_strides[idx + 1],
                              config.hidden_dim)]
         IN  IF \E idx \in DOMAIN built : built[idx].raised # None
             THEN [raised |-> "ValueError"]
             ELSE [raised |-> None, pos_embed |-> built]

\* HybridEncoder.__init__, lines 1403-1472: the encoder layer built at lines
\* 1431-1433 holds an nn.MultiheadAttention (line 421), which asserts that
\* the embedding dimension is divisible by the number of heads
EncoderInit(config) ==
    IF config.hidden_dim % config.num_head # 0 THEN [raised |-> "AssertionError"]
    ELSE
    LET r == EncoderResetParameters(config)
    IN  IF r.raised # None THEN [raised |-> r.raised]
        ELSE [raised |-> None,
              in_channels |-> config.in_channels,
              hidden_dim |-> config.hidden_dim,
              use_encoder_idx |-> config.use_encoder_idx,
              num_encoder_layers |-> config.num_encoder_layers,
              eval_size |-> config.eval_size,
              pos_embed |-> r.pos_embed]

\* tensor + pos_embed (line 435) followed by self-attention (line 442) on a
\* map of n positions: an embedding of one position is broadcast; a map of
\* one position is broadcast to the embedding's positions, and the attention
\* then asserts that key and value have the same shape; any other count that
\* differs from n fails in the addition
AddPosEmbed(n, pos_embed) ==
    IF pos_embed.positions = n \/ pos_embed.positions = 1 THEN [raised |-> None]
    ELSE IF n = 1 THEN [raised |-> "AssertionError"]
    ELSE [raised |-> "RuntimeError"]

\* lines 1505-1517 for one encoder index: the embedding used and whether the
\* encoder layer accepted it
EncodeLevel(enc, training, shape, enc_ind) ==
    LET pos_embed == IF training \/ enc.eval_size = NoTensor
                     THEN build_2d_sincos_position_embedding(shape[2], shape[1], enc.hidden_dim)
                     ELSE enc.pos_embed[enc_ind]
    IN  IF pos_embed.raised # None THEN [raised |-> pos_embed.raised]
        ELSE [raised |-> AddPosEmbed(shape[1] * shape[2], pos_embed).raised,
              pos_embed |-> pos_embed]

\* torch.concat of the upsampled (x2) upper map with the lower map (lines
\* 1526-1529) and of the downsampled lower map with the upper map (lines
\* 1536-1537) need equal batch sizes and spatial shapes
Fusable(proj_feats) ==
    \A i \in 1..(Len(proj_feats) - 1) :
        /\ proj_feats[i][1] = proj_feats[i + 1][1]
        /\ SpatialShape(proj_feats[i]) = <<2 * proj_feats[i + 1][3], 2 * proj_feats[i + 1][4]>>

RECURSIVE EncoderProject(_, _, _, _)
\* line 1502: input_proj[i](feat) for every feature map in turn; proj_feats
\* are the maps projected so far
EncoderProject(enc, training, feats, proj_feats) ==
    IF Len(proj_feats) = Len(feats) THEN [raised |-> None, proj_feats |-> proj_feats]
    ELSE LET i == Len(proj_feats) + 1
             r == ConvNorm(training, feats[i], enc.in_channels[i], enc.hidden_dim, FALSE)
         IN  IF r.raised # None THEN [raised |-> r.raised]
             ELSE EncoderProject(enc, training, feats, Append(proj_feats, r.feat))

\* HybridEncoder.forward, lines 1499-1540.  `projected` is the length of
\* proj_feats, which exists once line 1502 has projected every feature map.
\* Line 1501 raises a str, which Python turns into a TypeError.
EncoderForward(enc, training, feats) ==
    IF Len(feats) # Len(enc.in_channels) THEN [raised |-> "TypeError", projected |-> 0]
    ELSE
    LET p == EncoderProject(enc, training, feats, <<>>)
    IN  IF p.raised # None THEN [raised |-> p.raised, projected |-> 0]
        ELSE
        LET used == IF enc.num_encoder_layers > 0
                    THEN [k \in 1..Len(enc.use_encoder_idx) |->
                             EncodeLevel(enc, training,
                                         SpatialShape(p.proj_feats[enc.use_encoder_idx[k] + 1]),
                                         enc.use_encoder_idx[k])]
                    ELSE <<>>
            failed == {k \in 1..Len(used) : used[k].raised # None}
        IN  IF failed # {}
            THEN [raised |-> used[CHOOSE k \in failed : \A j \in failed : k <= j].raised,
                  projected |-> Len(feats)]
            ELSE IF ~Fusable(p.proj_feats) THEN [raised |-> "RuntimeError", projected |-> Len(feats)]
            ELSE [raised |-> None, projected |-> Len(feats),
                  pos_embed |-> [idx \in {enc.use_encoder_idx[k] : k \in 1..Len(used)} |->
                                    used[CHOOSE k \in 1..Len(used) :
                                             enc.use_encoder_idx[k] = idx].pos_embed],
                  outs |-> p.proj_feats]

\* RTDetrTransformer.generate_anchors, lines 899-920: one anchor per position
\* of every level; `shapes` are the level shapes the anchors were laid out on.
\* A level without positions fails in the reshape of line 913, no level at
\* all in the concatenation of line 915.
generate_anchors(spatial_shapes) ==
    IF \/ Len(spatial_shapes) = 0
       \/ \E l \in 1..Len(spatial_shapes) : spatial_shapes[l][1] * spatial_shapes[l][2] = 0
    THEN [raised |-> "RuntimeError"]
    ELSE [raised |-> None,
          shapes |-> spatial_shapes,
          positions |-> SumInts([l \in 1..Len(spatial_shapes) |->
                                    spatial_shapes[l][1] * spatial_shapes[l][2]])]

\* lines 900-903: the level shapes of the configured evaluation size
EvalShapes(eval_spatial_size, feat_strides) ==
    [l \in 1..Len(feat_strides) |->
        <<eval_spatial_size[1] \div feat_strides[l], eval_spatial_size[2] \div feat_strides[l]>>]

RECURSIVE ExtendStrides(_, _)
\* lines 796-797
ExtendStrides(feat_strides, num_levels) ==
    IF Len(feat_strides) >= num_levels THEN feat_strides
    ELSE ExtendStrides(Append(feat_strides, feat_strides[Len(feat_strides)] * 2), num_levels)

\* RTDetrTransformer.__init__, lines 782-861: the validation of lines
\* 789-795, the levels appended to feat_strides (796-797, the last stride of
\* an empty list is an IndexError), the decoder layer with its
\* nn.MultiheadAttention (line 650, which asserts that the embedding
\* dimension is divisible by the number of heads before
\* MSDeformableAttention, lines 565-566, gets to check it), the decoder
\* (TransformerDecoder.__init__) and the anchors of the evaluation size
\* (lines 858-859).
TransformerInit(config) ==
    IF config.position_embed_type \notin {"sine", "learned"} THEN [raised |-> "ValueError"]
    ELSE IF Len(config.feat_channels) > config.num_levels THEN [raised |-> "ValueError"]
    ELSE IF Len(config.feat_strides) # Len(config.feat_channels) THEN [raised |-> "ValueError"]
    ELSE IF Len(config.feat_channels) = 0 THEN [raised |-> "IndexError"]
    ELSE LET feat_strides == ExtendStrides(config.feat_strides, config.num_levels)
             anchors == IF config.eval_spatial_size # NoTensor
                        THEN generate_anchors(EvalShapes(config.eval_spatial_size, feat_strides))
                        ELSE NoTensor
         IN  IF config.hidden_dim % config.num_head # 0
             THEN [raised |-> "AssertionError"]
             ELSE IF anchors # NoTensor /\ anchors.raised # None
             THEN [raised |-> anchors.raised]
             ELSE [raised |-> None,
                   hidden_dim |-> config.hidden_dim,
                   feat_strides |-> feat_strides,
                   feat_channels |-> config.feat_channels,
                   num_levels |-> config.num_levels,
                   num_queries |-> config.num_queries,
                   num_denoising |-> config.num_denoising,
                   aux_loss |-> config.aux_loss,
                   eval_spatial_size |-> config.eval_spatial_size,
                   decoder |-> DecoderInit(config.num_decoder_layers, config.eval_idx),
                   anchors |-> anchors]

\* input_proj[i] applied to a feature map (lines 881-897): a 1x1 convolution
\* of feat_channels[i] channels for the configured levels, a 3x3 convolution
\* of stride 2 and padding 1 for the levels added up to num_levels, the
\* first of them of feat_channels[-1] channels, the others of hidden_dim
InputProj(xf, training, i, feat) ==
    LET n == Len(xf.feat_channels)
        channels_in == IF i < n THEN xf.feat_channels[i + 1]
                       ELSE IF i = n THEN xf.feat_channels[n]
                       ELSE xf.hidden_dim
    IN  ConvNorm(training, feat, channels_in, xf.hidden_dim, i >= n)

RECURSIVE ProjectedFeatures(_, _, _, _)
\* lines 924-931, from level i on: the feature maps in turn (input_proj has
\* num_levels entries), then the levels added from the last feature map
\* (feats[-1]) and from the last projected level
ProjectedFeatures(xf, training, feats, projected_features) ==
    LET i == Len(projected_features)
    IN  IF i >= Len(feats) /\ i >= xf.num_levels
        THEN [raised |-> None, projected_features |-> projected_features]
        ELSE IF i >= xf.num_levels \/ Len(feats) = 0 THEN [raised |-> "IndexError"]
        ELSE LET r == InputProj(xf, training, i,
                                IF i < Len(feats) THEN feats[i + 1]
                                ELSE IF i = Len(feats) THEN feats[Len(feats)]
                                ELSE projected_features[i])
             IN  IF r.raised # None THEN [raised |-> r.raised]
                 ELSE ProjectedFeatures(xf, training, feats, Append(projected_features, r.feat))

RECURSIVE StartIndexFrom(_, _)
\* lines 936-944: level_start_index grows by h * w per level
StartIndexFrom(projected_features, level_start_index) ==
    IF Len(level_start_index) > Len(projected_features) THEN level_start_index
    ELSE LET feat == projected_features[Len(level_start_index)]
         IN  StartIndexFrom(projected_features,
                 Append(level_start_index,
                        feat[1] * feat[2] + level_start_index[Len(level_start_index)]))

\* variant: the list is returned with the total still at its end
FlattenNoPop(projected_features) ==
    [spatial_shapes |-> projected_features,
     positions |-> SumInts([l \in 1..Len(projected_features) |->
                               projected_features[l][1] * projected_features[l][2]]),
     level_start_index |-> StartIndexFrom(projected_features, <<0>>)]

\* lines 933-948: feat_flatten (its number of positions), spatial_shapes and
\* level_start_index (the last entry popped)
Flatten(projected_features) ==
    LET starts == StartIndexFrom(projected_features, <<0>>)
    IN  [spatial_shapes |-> projected_features,
         positions |-> SumInts([l \in 1..Len(projected_features) |->
                                   projected_features[l][1] * projected_features[l][2]]),
         level_start_index |-> SubSeq(starts, 1, Len(starts) - 1)]

\* valid_mask * feat_flatten (line 973) and + anchors (line 978): a position
\* dimension of one is broadcast, any other difference fails
Broadcast(a, n) ==
    IF a = n \/ a = 1 THEN [raised |-> None, positions |-> n]
    ELSE IF n = 1 THEN [raised |-> None, positions |-> a]
    ELSE [raised |-> "RuntimeError"]

RECURSIVE DecoderLoop(_, _, _, _, _)
\* TransformerDecoder.forward, lines 731-760, from layer i on
DecoderLoop(decoder, training, target, i, dec_out) ==
    IF i >= decoder.num_layers THEN dec_out
    ELSE LET pred == [layer |-> i, queries |-> target]
         IN  IF training THEN DecoderLoop(decoder, training, target, i + 1, Append(dec_out, pred))
             ELSE IF i = decoder.eval_idx THEN Append(dec_out, pred)
             ELSE DecoderLoop(decoder, training, target, i + 1, dec_out)

\* RTDetrTransformer.forward, lines 922-1033, on feature maps given by their
\* shapes.  The result keeps what the call computed on its way: the
\* flattening, the denoising group and the anchors it used.
TransformerForward(xf, training, feats, tgts) ==
    LET p == ProjectedFeatures(xf, training, feats, <<>>)
    IN  IF p.raised # None THEN [raised |-> p.raised]
        ELSE IF \/ Len(p.projected_features) = 0
                \/ \E l \in 1..Len(p.projected_features) :
                      p.projected_features[l][1] # p.projected_features[1][1]
        THEN [raised |-> "RuntimeError"]
        ELSE
    LET batch_size == p.projected_features[1][1]
        flat == Flatten([l \in 1..Len(p.projected_features) |->
                            SpatialShape(p.projected_features[l])])
        d == IF training /\ xf.num_denoising > 0
             THEN get_contrastive_denoising_training_group(tgts, xf.num_queries, xf.num_denoising)
             ELSE NoDenoising
    IN  IF d.raised # None THEN [raised |-> d.raised, flat |-> flat]
        ELSE
        LET anchors == IF training \/ xf.eval_spatial_size = NoTensor
                       THEN generate_anchors(flat.spatial_shapes)
                       ELSE xf.anchors
            memory == Broadcast(anchors.positions, flat.positions)
        IN  IF memory.raised # None
            THEN [raised |-> memory.raised, flat |-> flat, dn |-> d, anchors |-> anchors]
            ELSE IF xf.num_queries > memory.positions
            THEN [raised |-> "RuntimeError", flat |-> flat, dn |-> d, anchors |-> anchors]
            ELSE IF d.denoising_class # NoTensor /\ Len(tgts) # batch_size
            THEN [raised |-> "RuntimeError", flat |-> flat, dn |-> d, anchors |-> anchors]
            ELSE
            LET target == (IF d.denoising_class # NoTensor THEN d.denoising_class ELSE <<>>)
                              \o TopkQueries(xf.num_queries)
                dec_out == DecoderLoop(xf.decoder, training, target, 0, <<>>)
            IN  IF dec_out = <<>>
                THEN [raised |-> "RuntimeError", flat |-> flat, dn |-> d, anchors |-> anchors]
                ELSE [raised |-> None, flat |-> flat, dn |-> d, anchors |-> anchors,
                      memory |-> memory.positions,
                      out |-> ForwardOut([training |-> training, aux_loss |-> xf.aux_loss,
                                          num_queries |-> xf.num_queries], d, dec_out)]

\* the configurations the model draws: levels of strides 1, 2, ..., backbone
\* maps of 1, 2, ... channels, encoder outputs of hidden_dim channels (as in
\* the defaults of RTDetrConfig, where feat_channels are hidden_dim), the
\* encoder on the last level, one decoder layer
Strides(n) == [l \in 1..n |-> 2 ^ (l - 1)]

EvalSizes == {NoTensor, <<MaxSide, MaxSide>>}

Configs ==
    {[hidden_dim |-> hidden_dim, num_head |-> num_head,
      in_channels |-> Strides(n), feat_channels |-> [l \in 1..n |-> hidden_dim],
      feat_strides |-> Strides(n),
      num_levels |-> num_levels, use_encoder_idx |-> <<n - 1>>,
      num_encoder_layers |-> num_encoder_layers,
      eval_size |-> eval_size, eval_spatial_size |-> eval_spatial_size,
      position_embed_type |-> "sine", num_classes |-> MaxClasses,
      num_queries |-> 1, num_denoising |-> num_denoising, aux_loss |-> FALSE,
      num_decoder_layers |-> 1, eval_idx |-> -1,
      matcher_class_cost |-> 2, matcher_bbox_cost |-> 5, matcher_giou_cost |-> 2,
      weight_loss_vfl |-> 1, weight_loss_bbox |-> 5, weight_loss_giou |-> 2] :
        hidden_dim \in {4, 6}, num_head \in {2, 4}, n \in {1, 2}, num_levels \in {2, 3},
        num_encoder_layers \in {0, 1}, eval_size \in EvalSizes,
        eval_spatial_size \in EvalSizes, num_denoising \in {0, 1}}

\* a new RTDetrModel with its configuration, put in training or evaluation
\* mode
InitModel ==
    /\ md_pc = "new"
    /\ \E config \in Configs, training \in BOOLEAN :
          md_cfg = [config |-> config, training |-> training]
    /\ md_in = NoTensor /\ md_st = NoTensor /\ md_out = NoTensor
    /\ IdleBox /\ IdleMatcher /\ IdleTransformer /\ IdleLoss

\* lines 787 and 796-797: feat_strides is config.feat_strides itself, the
\* levels are appended to the list the configuration holds.  xf is what
\* RTDetrTransformer.__init__ ended in: the errors of lines 789-797
\* (ValueError, IndexError) are raised before a level is appended, the later
\* ones (AssertionError of line 650, RuntimeError of line 859) after
ConfigAfterInit(config, xf) ==
    IF xf.raised \in {None, "AssertionError", "RuntimeError"}
    THEN [config EXCEPT !.feat_strides = ExtendStrides(config.feat_strides, config.num_levels)]
    ELSE config

\* RTDetrModel.__init__, lines 1551-1570: the encoder, then the decoder.
\* given is the configuration as it was handed over, config the object
\* after the constructors ran.
ConstructModel ==
    /\ md_pc = "new"
    /\ LET encoder == EncoderInit(md_cfg.config)
           decoder == IF encoder.raised = None THEN TransformerInit(md_cfg.config)
                      ELSE [raised |-> encoder.raised]
       IN  /\ md_cfg' = [config |-> IF encoder.raised = None
                                     THEN ConfigAfterInit(md_cfg.config, decoder)
                                     ELSE md_cfg.config,
                         given |-> md_cfg.config, training |-> md_cfg.training,
                         encoder |-> encoder, decoder |-> decoder]
           /\ md_pc' = IF decoder.raised = None THEN "constructed" ELSE "init_error"
    /\ UNCHANGED <<md_in, md_st, md_out, boxVars, matchVars, xfVars, lossVars>>

\* RTDetrTransformer.__init__ once more on the configuration object the
\* model was built from (any configuration that holds the same feat_strides
\* list sees the same contents)
ConstructTransformerAgain ==
    /\ md_pc = "constructed"
    /\ \E r \in {TransformerInit(md_cfg.config)} :
          /\ md_in' = [call |-> "RTDetrTransformer"]
          /\ md_out' = r
          /\ md_cfg' = [md_cfg EXCEPT !.config = ConfigAfterInit(@, r)]
          /\ md_pc' = IF r.raised = None THEN "rebuilt" ELSE "rebuild_error"
    /\ UNCHANGED <<md_st, boxVars, matchVars, xfVars, lossVars>>

\* the spatial shapes of n levels under the top one of shape <<h, w>>, each
\* level twice the size of the next
Pyramid(n, h, w) == [l \in 1..n |-> <<h * 2 ^ (n - l), w * 2 ^ (n - l)>>]

\* the feature maps of a batch of b images with the given channel counts and
\* spatial shapes per level
FeatureMaps(b, channels, shapes) ==
    [l \in 1..Len(shapes) |-> <<b, channels[l], shapes[l][1], shapes[l][2]>>]

\* HybridEncoder.forward called on its own, on maps of 1, 2, ... channels or
\* on maps of hidden_dim channels
CallEncoderForward ==
    /\ md_pc = "constructed"
    /\ \E n \in 0..3, h, w \in Sides, b \in Batches,
          channels \in {Strides(3), [l \in 1..3 |-> md_cfg.config.hidden_dim]} :
          \E feats \in {FeatureMaps(b, channels, Pyramid(n, h, w))} :
          /\ md_in' = [call |-> "encoder", feats |-> feats]
          /\ \E r \in {EncoderForward(md_cfg.encoder, md_cfg.training, feats)} :
                /\ md_out' = r
                /\ md_pc' = IF r.raised = None THEN "enc_returned" ELSE "enc_error"
    /\ UNCHANGED <<md_cfg, md_st, boxVars, matchVars, xfVars, lossVars>>

\* the spatial shapes RTDetrTransformer.forward is called on: any shapes for
\* one or two levels, and the pyramids of three
FeatChoices ==
    UNION {[1..n -> Sides \X Sides] : n \in {1, 2}} \cup {Pyramid(3, h, w) : h, w \in Sides}

\* RTDetrTransformer.forward called on its own, on maps of hidden_dim
\* channels or of one channel
CallTransformerForward ==
    /\ md_pc = "constructed"
    /\ \E shapes \in FeatChoices, b \in Batches, c \in {md_cfg.config.hidden_dim, 1},
          tgts \in {NoTensor, TargetsWith("labels", <<1>>)} :
          \E feats \in {FeatureMaps(b, [l \in 1..3 |-> c], shapes)} :
          /\ md_in' = [call |-> "decoder", feats |-> feats, targets |-> tgts]
          /\ \E r \in {TransformerForward(md_cfg.decoder, md_cfg.training, feats, tgts)} :
                /\ md_out' = r
                /\ md_pc' = IF r.raised = None THEN "dec_returned" ELSE "dec_error"
    /\ UNCHANGED <<md_cfg, md_st, boxVars, matchVars, xfVars, lossVars>>

\* a Python dict held as a value of another dict
PyDict(d) == [dict |-> d]

IsDict(v) == "dict" \in DOMAIN v

\* the builtin sum over the values of a dict, starting from 0 (line 1698):
\* adding a dict raises TypeError, tensors add up to the collection of the
\* added terms
PySum(d) ==
    IF \E k \in DOMAIN d : IsDict(d[k]) THEN [raised |-> "TypeError"]
    ELSE [raised |-> None, value |-> {d[k] : k \in DOMAIN d}]

\* lines 1663-1667 and 1685-1689
WeightDict(config) ==
    [k \in {<<"loss_vfl">>, <<"loss_bbox">>, <<"loss_giou">>} |->
        CASE k = <<"loss_vfl">> -> config.weight_loss_vfl
          [] k = <<"loss_bbox">> -> config.weight_loss_bbox
          [] k = <<"loss_giou">> -> config.weight_loss_giou]

\* RTDetrModel.forward, lines 1652-1698: matcher, criterion and total loss
ModelLoss(config, outputs, labels) ==
    LET matcher == MatcherInit(config.matcher_class_cost, config.matcher_bbox_cost,
                               config.matcher_giou_cost, TRUE)
        weight_dict == WeightDict(config)
        criterion == LossInit(weight_dict, <<"vfl", "boxes">>, config.num_classes)
        outputs_loss == Dict(<<"logits", "pred_boxes">>,
                             [k \in {"logits", "pred_boxes"} |->
                                 Tensor(Len(labels), Len(outputs[k].queries),
                                        IF k = "logits" THEN config.num_classes ELSE 4)])
    IN  IF matcher.raised # None THEN [raised |-> matcher.raised]
        ELSE
        LET loss_dict == LossForward(criterion, outputs_loss, labels)
        IN  IF loss_dict.raised # None THEN [raised |-> loss_dict.raised]
            ELSE IF ~(DOMAIN weight_dict \subseteq DOMAIN loss_dict.losses)
            THEN [raised |-> "KeyError"]
            ELSE
            LET weight_loss_scaled == Weighted(weight_dict, loss_dict.losses)
                reduced_loss_unscaled ==
                    [k \in {Append(j, "unscaled") : j \in DOMAIN loss_dict.losses} |->
                        loss_dict.losses[<<k[1]>>]]
                all == [k \in {<<"loss_dict">>, <<"weight_loss_scaled">>,
                               <<"reduced_loss_unscaled">>} |->
                           CASE k = <<"loss_dict">> -> PyDict(loss_dict.losses)
                             [] k = <<"weight_loss_scaled">> -> PyDict(weight_loss_scaled)
                             [] k = <<"reduced_loss_unscaled">> -> PyDict(reduced_loss_unscaled)]
                loss == PySum(all)
            IN  IF loss.raised # None THEN [raised |-> loss.raised]
                ELSE [raised |-> None, loss |-> loss.value, loss_dict |-> all]

\* the labels handed to RTDetrModel.forward: none, or one image with one
\* ground truth, or two images with none and MaxGt ground truths
LabelChoices ==
    {NoTensor} \cup {LossTargets({"class_labels", "boxes"}, counts) : counts \in {<<1>>, <<0, MaxGt>>}}

\* RTDetrModel.forward, line 1645: the backbone returns one feature map per
\* level, of in_channels channels, each level twice the size of the next;
\* labels come one per image of the batch
ForwardBackbone ==
    /\ md_pc = "constructed"
    /\ \E labels \in LabelChoices, h, w \in Sides, b \in Batches :
          /\ labels # NoTensor => b = Len(labels)
          /\ md_in' = [call |-> "forward", labels |-> labels, batch_size |-> b]
          /\ md_st' = [trace |-> <<"backbone">>,
                       features |-> FeatureMaps(b, md_cfg.config.in_channels,
                                        Pyramid(Len(md_cfg.config.in_channels), h, w))]
    /\ md_pc' = "backbone"
    /\ UNCHANGED <<md_cfg, md_out, boxVars, matchVars, xfVars, lossVars>>

\* line 1646
ForwardEncoder ==
    /\ md_pc = "backbone"
    /\ \E r \in {EncoderForward(md_cfg.encoder, md_cfg.training, md_st.features)} :
          /\ md_st' = [trace |-> Append(md_st.trace, "encoder"), encoder |-> r]
          /\ md_pc' = IF r.raised = None THEN "encoder" ELSE "error"
          /\ md_out' = IF r.raised = None THEN md_out ELSE [raised |-> r.raised]
    /\ UNCHANGED <<md_cfg, md_in, boxVars, matchVars, xfVars, lossVars>>

\* line 1647: the decoder is called on the encoder outputs alone, its
\* targets parameter keeps its default None
ForwardDecoder ==
    /\ md_pc = "encoder"
    /\ \E r \in {TransformerForward(md_cfg.decoder, md_cfg.training, md_st.encoder.outs, NoTensor)} :
          /\ md_st' = [trace |-> Append(md_st.trace, "decoder"),
                       decoder_targets |-> NoTensor, decoder |-> r]
          /\ md_pc' = IF r.raised = None THEN "decoder" ELSE "error"
          /\ md_out' = IF r.raised = None THEN md_out ELSE [raised |-> r.raised]
    /\ UNCHANGED <<md_cfg, md_in, boxVars, matchVars, xfVars, lossVars>>

\* lines 1649-1705
ForwardLoss ==
    /\ md_pc = "decoder"
    /\ LET outputs == md_st.decoder.out
       IN  IF md_in.labels = NoTensor
           THEN /\ md_st' = md_st
                /\ md_pc' = "done"
                /\ md_out' = [raised |-> None, loss |-> NoTensor, loss_dict |-> NoTensor,
                              logits |-> outputs.logits, pred_boxes |-> outputs.pred_boxes]
           ELSE \E r \in {ModelLoss(md_cfg.config, outputs, md_in.labels)} :
                /\ md_st' = [md_st EXCEPT !.trace = Append(@, "loss")]
                /\ md_pc' = IF r.raised = None THEN "done" ELSE "error"
                /\ md_out' = IF r.raised # None THEN [raised |-> r.raised]
                              ELSE [raised |-> None, loss |-> r.loss, loss_dict |-> r.loss_dict,
                                    logits |-> outputs.logits, pred_boxes |-> outputs.pred_boxes]
    /\ UNCHANGED <<md_cfg, md_in, boxVars, matchVars, xfVars, lossVars>>

NextModel ==
    \/ ConstructModel
    \/ CallEncoderForward
    \/ CallTransformerForward
    \/ ForwardBackbone
    \/ ForwardEncoder
    \/ ForwardDecoder
    \/ ForwardLoss
    \/ ConstructTransformerAgain

SpecModel == InitModel /\ [][NextModel]_vars

(***************************************************************************)
(* Claims about HybridEncoder (checked under SpecModel).                   *)
(***************************************************************************)
\* C16: a hidden dimension that is not divisible by 4 is rejected when the
\* hybrid encoder is constructed, whatever eval_size is: no model with such
\* a dimension gets constructed, and no forward call is the first to detect it
C16_EmbedDimRejectedAtConstruction ==
    md_cfg.config.hidden_dim % 4 # 0 => md_pc \in {"new", "init_error"}

EncoderCalled == md_pc \in {"enc_returned", "enc_error"}

\* C17: HybridEncoder.forward called with a number of feature maps other than
\* len(in_channels) aborts with an input-shape validation error (a
\* ValueError) before any feature map is projected; called with that number
\* it has projected every feature map when it returns
C17_FeatureCountValidated ==
    EncoderCalled =>
        IF Len(md_in.feats) # Len(md_cfg.config.in_channels)
        THEN md_pc = "enc_error" /\ md_out = [raised |-> "ValueError", projected |-> 0]
        ELSE md_out.raised = None => md_out.projected = Len(md_in.feats)

(***************************************************************************)
(* Claims about the flattening and the caches (checked under SpecModel).   *)
(***************************************************************************)
Flattened == md_pc \in {"dec_returned", "dec_error"} /\ "flat" \in DOMAIN md_out

Area(shape) == shape[1] * shape[2]

\* C19: after RTDetrTransformer.forward has flattened the projected feature
\* maps, the memory has sum(h * w) positions, level_start_index has one
\* entry per level, starts with 0, and its entry for level i is the sum of
\* h * w over the levels before i
C19_LevelStartIndex ==
    Flattened =>
        LET shapes == md_out.flat.spatial_shapes
            starts == md_out.flat.level_start_index
        IN  /\ Len(shapes) >= Len(md_in.feats)
            /\ md_out.flat.positions = SumInts([l \in 1..Len(shapes) |-> Area(shapes[l])])
            /\ Len(starts) = Len(shapes)
            /\ starts[1] = 0
            /\ \A i \in 1..Len(shapes) :
                  starts[i] = SumInts([l \in 1..(i - 1) |-> Area(shapes[l])])

\* two feature maps and a third level added by the stride-2 projection
C19_Witness ==
    /\ Flattened /\ [l \in 1..Len(md_in.feats) |-> SpatialShape(md_in.feats[l])] = <<<<2, 2>>, <<1, 2>>>>
    /\ md_out.flat.spatial_shapes = <<<<2, 2>>, <<1, 2>>, <<1, 1>>>>
    /\ md_out.flat.level_start_index = <<0, 4, 6>>
    /\ md_out.flat.positions = 7

\* C20: in evaluation mode the anchors the decoder uses are the ones a fresh
\* computation on the input's spatial shapes gives, one per flattened
\* position, and the positional embedding the encoder uses is the one of the
\* encoded feature map's shape: a cache computed for another size is not used
C20_EvalCachesMatchInput ==
    /\ (Flattened /\ ~md_cfg.training) =>
            /\ md_out.anchors = generate_anchors(md_out.flat.spatial_shapes)
            /\ md_out.anchors.positions = md_out.flat.positions
    /\ (EncoderCalled /\ ~md_cfg.training /\ md_cfg.config.hidden_dim % 4 = 0
            /\ md_cfg.config.num_encoder_layers > 0
            /\ Len(md_in.feats) = Len(md_cfg.config.in_channels)) =>
            /\ md_out.raised = None
            /\ \A idx \in DOMAIN md_out.pos_embed :
                  md_out.pos_embed[idx].grid = SpatialShape(md_in.feats[idx + 1])

(***************************************************************************)
(* Claims about RTDetrModel.forward (checked under SpecModel).             *)
(***************************************************************************)
ForwardEnded == md_pc \in {"done", "error"}

NumBoxesOf(labels) ==
    ClampMin1(SumInts([i \in 1..Len(labels) |-> Len(labels[i]["class_labels"])]))

\* backbone, encoder and decoder have returned and the loss is being computed
LossEntered == ForwardEnded /\ Len(md_st.trace) = 4

\* C12: with labels, RTDetrModel.forward (once backbone, encoder and decoder
\* have returned their outputs) completes and returns as loss the
\* sum of loss_vfl, loss_bbox and loss_giou, each multiplied exactly once by
\* its configured weight, together with the loss dictionary
C12_LossIsWeightedSum ==
    (LossEntered /\ md_in.labels # NoTensor) =>
        /\ md_pc = "done"
        /\ md_out.loss =
              {LossValue("loss_vfl", NumBoxesOf(md_in.labels), <<md_cfg.config.weight_loss_vfl>>),
               LossValue("loss_bbox", NumBoxesOf(md_in.labels), <<md_cfg.config.weight_loss_bbox>>),
               LossValue("loss_giou", NumBoxesOf(md_in.labels), <<md_cfg.config.weight_loss_giou>>)}
        /\ md_out.loss_dict # NoTensor

\* the stages RTDetrModel.forward has entered, in order
DecoderEntered == ForwardEnded /\ Len(md_st.trace) >= 3

\* C14: in training mode with num_denoising > 0 and labels, forward enters
\* backbone, encoder, decoder and loss in this order, the decoder is handed
\* the labels and builds the denoising group from them, and the pass does not
\* end in the decoder for lack of targets
C14_TrainingForwardOrder ==
    (DecoderEntered /\ md_cfg.training /\ md_cfg.config.num_denoising > 0
        /\ md_in.labels # NoTensor) =>
        /\ md_st.trace = <<"backbone", "encoder", "decoder", "loss">>
        /\ md_st.decoder_targets = md_in.labels
        /\ md_st.decoder.dn.raised = None

(***************************************************************************)
(* Further claims about the decoder and the denoising group (checked       *)
(* under Spec).                                                            *)
(***************************************************************************)
AllLayers == [k \in 1..cfg.decoder.num_layers |-> k - 1]

\* C30: construction accepts every integer eval_idx; with eval_idx outside
\* [-num_layers, num_layers - 1] an evaluation-mode forward executes all
\* num_layers layers, collects no prediction, and ends in the error of
\* stacking the empty list, never in an output; a training-mode forward
\* runs and stacks all layers whatever eval_idx is.
C30_EvalIdxOutOfRange ==
    dec # NoTensor =>
        /\ (~cfg.training /\ ~EvalIdxInRange) =>
              /\ dec.dec_out = <<>>
              /\ pc \notin {"output", "done"}
              /\ pc \in {"stack", "error"} => dec.executed = AllLayers
              /\ pc = "error" => out = [raised |-> "RuntimeError"]
        /\ cfg.training =>
              /\ pc # "error"
              /\ DecoderLoopOver => dec.executed = AllLayers
              /\ pc \in {"output", "done"} => LayersOf(dec.stacked) = AllLayers

\* evaluation with two layers and eval_idx = 2: both layers ran, nothing was
\* collected and stacking failed
C30_Witness ==
    /\ pc = "error" /\ ~cfg.training /\ dec # NoTensor
    /\ cfg.decoder.num_layers = 2 /\ cfg.eval_idx = 2
    /\ dec.executed = <<0, 1>> /\ dec.dec_out = <<>>
    /\ out = [raised |-> "RuntimeError"]

\* C22: whenever the builder returns a group (some image has a ground
\* truth), the number of denoising queries per image, dn_num_split[0],
\* equals the configured num_denoising.
C22_TotalEqualsNumDenoising ==
    MaskBuilt => dn.dn_meta.dn_num_split[1] = cfg.num_denoising

(***************************************************************************)
(* The label arrays of get_contrastive_denoising_training_group and their  *)
(* random label noise (SpecDn).  The builder is called on its own; pc,     *)
(* cfg, targets and dn hold the call's position, arguments and result.     *)
(***************************************************************************)

\* mutant: the noise is written wherever the random mask is set
LabelNoiseAnywhere(input_query_class, pad_gt_mask, mask, new_label) ==
    [b \in 1..Len(input_query_class) |->
        [j \in 1..Len(input_query_class[b]) |->
            IF mask[b][j] THEN new_label[b][j] ELSE input_query_class[b][j]]]

\* line 318: torch.where(mask & pad_gt_mask, new_label, input_query_class)
LabelNoise(input_query_class, pad_gt_mask, mask, new_label) ==
    [b \in 1..Len(input_query_class) |->
        [j \in 1..Len(input_query_class[b]) |->
            IF mask[b][j] /\ pad_gt_mask[b][j] THEN new_label[b][j]
            ELSE input_query_class[b][j]]]

\* lines 273-318, the class labels only: tiled is input_query_class before
\* the noise, mask and new_label are the draws of lines 315 and 317
DenoisingLabels(tgts, num_classes, num_denoising, label_noise_ratio, mask, new_label) ==
    IF num_denoising <= 0 THEN NoDenoising
    ELSE LET num_gts    == [b \in 1..Len(tgts) |-> Len(tgts[b]["labels"])]
             max_gt_num == MaxOfSeq(num_gts)
         IN  IF max_gt_num = 0 THEN NoDenoising
             ELSE IF PadBoxesRaised(tgts, num_gts) # None
             THEN [raised |-> PadBoxesRaised(tgts, num_gts)]
             ELSE LET g           == num_denoising \div max_gt_num
                      num_group   == IF g = 0 THEN 1 ELSE g
                      tiled       == [b \in 1..Len(tgts) |->
                                         Tile(PadRow(tgts[b]["labels"], max_gt_num, num_classes),
                                              2 * num_group)]
                      pad_gt_mask == [b \in 1..Len(tgts) |->
                                         PadGtMask(num_gts[b], max_gt_num, num_group)]
                  IN  [raised |-> None,
                       max_gt_num |-> max_gt_num,
                       num_group |-> num_group,
                       tiled |-> tiled,
                       pad_gt_mask |-> pad_gt_mask,
                       dn_positive_idx |-> DnPositiveIdx(num_gts, num_group, max_gt_num),
                       num_denoising |-> max_gt_num * 2 * num_group,
                       input_query_class |->
                           IF RLt(R(0), label_noise_ratio)
                           THEN LabelNoise(tiled, pad_gt_mask, mask, new_label)
                           ELSE tiled]

\* the most positions (batch_size times row length) of a label array on
\* which the noise is drawn
MaxNoised == 4

\* the shape [batch_size, max_gt_num * 2 * num_group] of input_query_class at
\* line 315; <<0, 0>> when the call does not get to draw the noise
LabelShape(tgts, num_denoising, label_noise_ratio) ==
    LET num_gts    == [b \in 1..Len(tgts) |-> Len(tgts[b]["labels"])]
        max_gt_num == MaxOfSeq(num_gts)
    IN  IF \/ num_denoising <= 0
           \/ max_gt_num = 0
           \/ PadBoxesRaised(tgts, num_gts) # None
           \/ ~RLt(R(0), label_noise_ratio)
        THEN <<0, 0>>
        ELSE LET g == num_denoising \div max_gt_num
             IN  <<Len(tgts), max_gt_num * 2 * (IF g = 0 THEN 1 ELSE g)>>

\* outcomes of torch.rand_like(...) < label_noise_ratio * 0.5 on an array of
\* the given shape: every position is set or not, independently
NoiseMasks(shape) == [1..shape[1] -> [1..shape[2] -> BOOLEAN]]

\* outcomes of torch.randint_like(mask, 0, num_classes): at every position
\* a value in [0, num_classes)
NewLabels(shape, num_classes) == [1..shape[1] -> [1..shape[2] -> 0..(num_classes - 1)]]

\* per image the ground-truth labels, in [0, num_classes)
LabelTargets(num_classes) ==
    UNION {{[b \in 1..bs |-> [labels |-> ls[b],
                               boxes |-> [t \in 1..Len(ls[b]) |-> Eighths(4, 4, 4, 4)]]] :
               ls \in [1..bs -> SeqsUpTo(0..(num_classes - 1), MaxGt)]} : bs \in Batches}

InitDn ==
    /\ pc = "dn_call"
    /\ \E num_classes \in 1..MaxClasses, num_denoising \in 0..MaxDenoising,
          label_noise_ratio \in {R(0), <<1, 2>>} :
          /\ cfg = [num_classes |-> num_classes, num_denoising |-> num_denoising,
                    label_noise_ratio |-> label_noise_ratio]
          /\ targets \in LabelTargets(num_classes)
          /\ LET shape == LabelShape(targets, num_denoising, label_noise_ratio)
             IN  shape[1] * shape[2] <= MaxNoised
    /\ dn = NoTensor /\ dec = NoTensor /\ out = NoTensor
    /\ IdleBox /\ IdleMatcher /\ IdleLoss /\ IdleModel

\* get_contrastive_denoising_training_group up to line 318
CallDenoisingLabels ==
    /\ pc = "dn_call"
    /\ LET shape == LabelShape(targets, cfg.num_denoising, cfg.label_noise_ratio)
       IN  \E mask \in NoiseMasks(shape), new_label \in NewLabels(shape, cfg.num_classes) :
              dn' = DenoisingLabels(targets, cfg.num_classes, cfg.num_denoising,
                                    cfg.label_noise_ratio, mask, new_label)
    /\ pc' = "dn_labelled"
    /\ UNCHANGED <<cfg, targets, dec, out, boxVars, matchVars, lossVars, modelVars>>

NextDn == CallDenoisingLabels

SpecDn == InitDn /\ [][NextDn]_vars

LabelsBuilt == pc = "dn_labelled" /\ dn # NoDenoising

NumLabels(b) == Len(targets[b]["labels"])

\* C23: for every image b with n_b ground truths, dn_positive_idx[b] holds
\* exactly n_b * G indices: in ascending order the positions j in
\* [0, 2 * m * G) with (j mod 2m) < n_b, none of them a padding or a
\* negative-half position, and the token the builder laid out at position j
\* is the copy of ground truth j mod 2m.
C23_PositiveIdxPositional ==
    LabelsBuilt =>
        LET m == dn.max_gt_num
            G == dn.num_group
        IN  /\ m = MaxOfSeq([b \in 1..Len(targets) |-> NumLabels(b)])
            /\ G = (IF cfg.num_denoising \div m >= 1 THEN cfg.num_denoising \div m ELSE 1)
            /\ Len(dn.dn_positive_idx) = Len(targets)
            /\ \A b \in 1..Len(targets) :
                  LET idx == dn.dn_positive_idx[b]
                  IN  /\ Len(idx) = NumLabels(b) * G
                      /\ \A k \in 1..(Len(idx) - 1) : idx[k] < idx[k + 1]
                      /\ {idx[k] : k \in 1..Len(idx)} =
                             {j \in 0..(2 * m * G - 1) : j % (2 * m) < NumLabels(b)}
                      /\ \A k \in 1..Len(idx) :
                            /\ dn.pad_gt_mask[b][idx[k] + 1]
                            /\ idx[k] % (2 * m) < m
                            /\ dn.tiled[b][idx[k] + 1] =
                                   targets[b]["labels"][(idx[k] % (2 * m)) + 1]

\* two images with two and one ground truths, two groups: the second image
\* skips the padding positions 1 and 5
C23_Witness ==
    /\ LabelsBuilt
    /\ Len(targets) = 2 /\ targets[1]["labels"] = <<0, 1>> /\ targets[2]["labels"] = <<1>>
    /\ dn.num_group = 2
    /\ dn.dn_positive_idx = <<<<0, 1, 4, 5>>, <<0, 4>>>>
    /\ dn.tiled[2] = <<1, 2, 1, 2, 1, 2, 1, 2>>

IsPadding(b, j) == ((j - 1) % dn.max_gt_num) + 1 > NumLabels(b)

\* C24: whatever the random mask and the random labels are, every padding
\* position of the tiled label array holds num_classes and every other
\* position holds a class in [0, num_classes).
C24_LabelNoiseKeepsPadding ==
    LabelsBuilt =>
        \A b \in 1..Len(targets) :
            /\ Len(dn.input_query_class[b]) = 2 * dn.max_gt_num * dn.num_group
            /\ \A j \in 1..Len(dn.input_query_class[b]) :
                  IF IsPadding(b, j)
                  THEN dn.input_query_class[b][j] = cfg.num_classes
                  ELSE dn.input_query_class[b][j] \in 0..(cfg.num_classes - 1)

\* the noise replaced the label at a single position of the first image and
\* left the second image, all padding, alone
C24_Witness ==
    /\ LabelsBuilt
    /\ cfg.num_classes = 2
    /\ Len(targets) = 2 /\ targets[1]["labels"] = <<0>> /\ targets[2]["labels"] = <<>>
    /\ dn.tiled = <<<<0, 0>>, <<2, 2>>>>
    /\ dn.input_query_class = <<<<1, 0>>, <<2, 2>>>>

(***************************************************************************)
(* Further claims about RTDetrLoss.forward (checked under SpecLoss).       *)
(***************************************************************************)
FromTransformer == "aux_outputs" \in DOMAIN l_outputs.val

\* the terms of the requested losses but the mask loss that have a weight
WeightedAuxTerms ==
    {t \in UNION {TermsOf(l) : l \in Requested \ {"masks"}} : <<t>> \in DOMAIN l_crit.weight_dict}

\* C25: called on the dictionary a training-mode RTDetrTransformer.forward
\* with aux_loss returns, RTDetrLoss.forward adds for each auxiliary output
\* i the requested terms (but the mask terms) under the keys suffixed _i.
C25_AuxLossesFromForward ==
    (l_pc = "returned" /\ FromTransformer) =>
        \A i \in 0..(Len(l_outputs.val["aux_outputs"].list) - 1) :
            \A t \in WeightedAuxTerms : <<t, i>> \in DOMAIN l_res.losses

HasDenoising == {"dn_aux_outputs", "dn_meta"} \subseteq DOMAIN l_outputs.val

\* the same call without the two denoising entries
WithoutDenoising == WithoutKey(WithoutKey(l_outputs, "dn_aux_outputs"), "dn_meta")

\* C26: with dn_aux_outputs and dn_meta in the outputs, a call whose main
\* and auxiliary branches succeed returns, and the returned dictionary has
\* for every denoising layer output i and every requested weighted term but
\* the mask terms an entry suffixed _dn_i, normalised by num_boxes times
\* dn_num_group.
C26_DenoisingLosses ==
    (/\ LossCalled /\ HasDenoising
     /\ IsTensor(l_outputs.val[l_outputs.order[1]])
     /\ LossForward(l_crit, WithoutDenoising, l_targets).raised = None) =>
        /\ l_pc = "returned"
        /\ \A i \in 0..(Len(l_outputs.val["dn_aux_outputs"].list) - 1) :
              \A t \in WeightedAuxTerms :
                  /\ <<t, "dn", i>> \in DOMAIN l_res.losses
                  /\ l_res.losses[<<t, "dn", i>>].num_boxes \in
                         {0, l_outputs.val["dn_meta"].dn_num_group
                                * ClampMin1(SumInts([b \in 1..Len(l_targets) |->
                                                        Len(l_targets[b]["class_labels"])]))}

\* C27: every entry of the returned dictionary, in the main branch and in
\* the auxiliary branches alike, is a term that has a weight_dict entry,
\* multiplied once by that weight.
C27_EveryEntryWeighted ==
    l_pc = "returned" =>
        \A k \in DOMAIN l_res.losses :
            /\ <<k[1]>> \in DOMAIN l_crit.weight_dict
            /\ l_res.losses[k].factors = <<l_crit.weight_dict[<<k[1]>>]>>

(***************************************************************************)
(* The values of RTDetrLoss.loss_boxes (SpecBoxLoss).  RTDetrLoss.forward   *)
(* is called with the box loss alone on boxes with exact coordinates:      *)
(* l_outputs, l_targets and l_res hold the arguments and the returned      *)
(* terms, the matcher variables the call of the matcher and its indices.   *)
(***************************************************************************)
\* variant: the sums are returned without normalisation
LossBoxesValueNoNorm(pred_boxes, tgts, indices, num_boxes) ==
    LET src_boxes    == Cat([b \in 1..Len(indices) |->
                                [k \in 1..Len(indices[b][1]) |-> pred_boxes[b][indices[b][1][k] + 1]]])
        target_boxes == Cat([b \in 1..Len(indices) |->
                                [k \in 1..Len(indices[b][2]) |-> tgts[b]["boxes"][indices[b][2][k] + 1]]])
        g            == generalized_box_iou(
                            Matrix([k \in 1..Len(src_boxes) |-> box_cxcywh_to_xyxy(src_boxes[k])]),
                            Matrix([k \in 1..Len(src_boxes) |-> box_cxcywh_to_xyxy(target_boxes[k])]))
    IN  IF g.raised # None THEN [raised |-> g.raised]
        ELSE [raised |-> None,
              loss_bbox |-> SumSeq([k \in 1..Len(src_boxes) |->
                                       CostBbox(src_boxes[k], target_boxes[k])]),
              loss_giou |-> SumSeq([k \in 1..Len(src_boxes) |-> RSub(R(1), g.giou[k][k])])]

\* RTDetrLoss.loss_boxes, lines 1207-1222: the matched boxes of the batch
\* (lines 1209-1211), the L1 and the 1 - GIoU errors, each summed and divided
\* by num_boxes
LossBoxesValue(pred_boxes, tgts, indices, num_boxes) ==
    LET src_boxes    == Cat([b \in 1..Len(indices) |->
                                [k \in 1..Len(indices[b][1]) |-> pred_boxes[b][indices[b][1][k] + 1]]])
        target_boxes == Cat([b \in 1..Len(indices) |->
                                [k \in 1..Len(indices[b][2]) |-> tgts[b]["boxes"][indices[b][2][k] + 1]]])
        loss_bbox    == [k \in 1..Len(src_boxes) |-> CostBbox(src_boxes[k], target_boxes[k])]
        g            == generalized_box_iou(
                            Matrix([k \in 1..Len(src_boxes) |-> box_cxcywh_to_xyxy(src_boxes[k])]),
                            Matrix([k \in 1..Len(src_boxes) |-> box_cxcywh_to_xyxy(target_boxes[k])]))
    IN  IF g.raised # None THEN [raised |-> g.raised]
        ELSE [raised |-> None,
              loss_bbox |-> RDiv(SumSeq(loss_bbox), R(num_boxes)),
              loss_giou |-> RDiv(SumSeq([k \in 1..Len(src_boxes) |-> RSub(R(1), g.giou[k][k])]),
                                 R(num_boxes))]

\* RTDetrLoss.forward, lines 1330-1332: the class labels of the batch are
\* counted, not its boxes
NumBoxes(tgts) == ClampMin1(SumInts([b \in 1..Len(tgts) |-> Len(tgts[b]["class_labels"])]))

\* the matcher the criterion is built with: the configuration defaults
\* (configuration_rt_detr.py, lines 200-203)
DefaultMatcher == MatcherInit(2, 5, 2, TRUE)

\* the weights the criterion is built with: the configuration defaults
\* (RTDetrModel.forward, lines 1663-1667), or a weight for loss_bbox alone
BoxWeightDicts ==
    {[k \in {<<"loss_vfl">>, <<"loss_bbox">>, <<"loss_giou">>} |->
        CASE k = <<"loss_vfl">> -> 1 [] k = <<"loss_bbox">> -> 5 [] k = <<"loss_giou">> -> 2],
     [k \in {<<"loss_bbox">>} |-> 5]}

\* RTDetrLoss.forward once the matcher has returned `indices`, with
\* losses = ["boxes"] and no auxiliary outputs (lines 1330-1339, 1375):
\* num_boxes, loss_boxes, and of its two terms those that have a weight,
\* each multiplied by it (line 1338)
BoxLosses(crit, outputs, tgts, indices) ==
    LET v == LossBoxesValue(outputs.pred_boxes, tgts, indices, NumBoxes(tgts))
    IN  IF v.raised # None THEN [raised |-> v.raised]
        ELSE [raised |-> None,
              losses |-> [k \in {<<"loss_bbox">>, <<"loss_giou">>} \cap DOMAIN crit.weight_dict |->
                             RMul(IF k = <<"loss_bbox">> THEN v.loss_bbox ELSE v.loss_giou,
                                  R(crit.weight_dict[k]))]]

InitBoxLoss ==
    /\ l_pc = "boxes_call"
    /\ \E bs \in Batches, nq \in 1..MaxQueries :
       \E pk \in PredSeqs(nq + bs - 1) :
       \E counts \in [1..bs -> 0..MaxGt] :
       \E tk \in SeqsOfLen(TgtKinds, MaxGt) :
          \* image b has the predictions b .. b + nq - 1 of pk and the
          \* first counts[b] ground truths of tk
          /\ l_outputs = [out_prob   |-> [b \in 1..bs |-> [q \in 1..nq |-> pk[b + q - 1].out_prob]],
                          pred_boxes |-> [b \in 1..bs |-> [q \in 1..nq |-> pk[b + q - 1].box]]]
          /\ l_targets = [b \in 1..bs |-> TargetOf(SubSeq(tk, 1, counts[b]))]
    /\ \E w \in BoxWeightDicts : l_crit = LossInit(w, <<"boxes">>, Len(PredKinds[1].out_prob))
    /\ l_res = None
    /\ m_pc = "constructed" /\ m_cfg = DefaultMatcher
    /\ m_outputs = None /\ m_targets = None /\ m_indices = None
    /\ IdleBox /\ IdleTransformer /\ IdleModel

\* RTDetrLoss.forward with losses = ["boxes"] and no auxiliary outputs,
\* lines 1324-1339 and 1375: the call of the matcher (line 1327), then
\* num_boxes, loss_boxes on the indices the matcher returned and the
\* weights
CallLossBoxes ==
    /\ l_pc = "boxes_call"
    /\ \E m \in {MatcherForward(m_cfg, l_outputs, l_targets)} :
          /\ m_outputs' = l_outputs
          /\ m_targets' = l_targets
          /\ IF m.raised # None
             THEN /\ m_indices' = [raised |-> m.raised]
                  /\ m_pc' = "error"
                  /\ l_res' = [raised |-> m.raised]
             ELSE \E ix \in m.results :
                  /\ m_indices' = [raised |-> None, indices |-> ix]
                  /\ m_pc' = "returned"
                  /\ l_res' = BoxLosses(l_crit, l_outputs, l_targets, ix)
    /\ l_pc' = "boxes_done"
    /\ UNCHANGED <<m_cfg, l_crit, l_outputs, l_targets, boxVars, xfVars, modelVars>>

NextBoxLoss == CallLossBoxes

SpecBoxLoss == InitBoxLoss /\ [][NextBoxLoss]_vars

BoxLossReturned == l_pc = "boxes_done" /\ l_res.raised = None

\* the batch followed by a copy of itself
TwiceOutputs ==
    [out_prob   |-> l_outputs.out_prob \o l_outputs.out_prob,
     pred_boxes |-> l_outputs.pred_boxes \o l_outputs.pred_boxes]

TwiceTargets == l_targets \o l_targets

\* what forward returns for the doubled batch when the matcher matches the
\* copy as it matched the batch: twice the matched boxes, each pair with
\* the error it had
TwiceTheBatch == BoxLosses(l_crit, TwiceOutputs, TwiceTargets,
                           m_indices.indices \o m_indices.indices)

\* images with the ground truths of the batch's images and predictions that
\* repeat these ground truths, box and class: matched query k with ground
\* truth k, every pair has L1 error 0 and GIoU 1
ExactOutputs ==
    LET pred(b, q) ==
            LET n == Len(l_targets[b]["boxes"])
                t == ((q - 1) % n) + 1
            IN  IF n = 0
                THEN [out_prob |-> l_outputs.out_prob[b][q], box |-> l_outputs.pred_boxes[b][q]]
                ELSE [out_prob |-> IF l_targets[b]["class_labels"][t] = 0
                                   THEN <<Rat(7, 8), Rat(1, 8)>> ELSE <<Rat(1, 8), Rat(7, 8)>>,
                      box |-> l_targets[b]["boxes"][t]]
    IN  [out_prob   |-> [b \in 1..Len(l_targets) |->
                            [q \in 1..Len(l_outputs.pred_boxes[b]) |-> pred(b, q).out_prob]],
         pred_boxes |-> [b \in 1..Len(l_targets) |->
                            [q \in 1..Len(l_outputs.pred_boxes[b]) |-> pred(b, q).box]]]

ExactIndices ==
    [b \in 1..Len(l_targets) |->
        LET n == Min(Len(l_outputs.pred_boxes[b]), Len(l_targets[b]["boxes"]))
        IN  <<[k \in 1..n |-> k - 1], [k \in 1..n |-> k - 1]>>]

\* the batch followed by these images
PaddedOutputs ==
    [out_prob   |-> l_outputs.out_prob \o ExactOutputs.out_prob,
     pred_boxes |-> l_outputs.pred_boxes \o ExactOutputs.pred_boxes]

\* what forward returns for the batch followed by these images: twice the
\* ground truths, hence twice num_boxes, and the summed errors of the batch
DoubledNumBoxes == BoxLosses(l_crit, PaddedOutputs, TwiceTargets,
                             m_indices.indices \o ExactIndices)

NumMatched(ix) == SumInts([b \in 1..Len(ix) |-> Len(ix[b][1])])

\* the summed L1 error of the matched pairs
SumL1(ix) ==
    SumSeq(Cat([b \in 1..Len(ix) |-> [k \in 1..Len(ix[b][1]) |->
               CostBbox(l_outputs.pred_boxes[b][ix[b][1][k] + 1],
                        l_targets[b]["boxes"][ix[b][2][k] + 1])]]))

\* the summed 1 - GIoU error of the matched pairs, pair by pair
SumGiouError(ix) ==
    SumSeq(Cat([b \in 1..Len(ix) |-> [k \in 1..Len(ix[b][1]) |->
               RSub(R(1), generalized_box_iou(
                   <<box_cxcywh_to_xyxy(l_outputs.pred_boxes[b][ix[b][1][k] + 1])>>,
                   <<box_cxcywh_to_xyxy(l_targets[b]["boxes"][ix[b][2][k] + 1])>>).giou[1][1])]]))

\* C28 as stated: doubling the matched boxes of the batch, each pair's L1
\* and GIoU error held fixed, halves loss_bbox and loss_giou.
C28_DoublingHalves ==
    BoxLossReturned =>
        \A k \in DOMAIN l_res.losses :
            TwiceTheBatch.losses[k] = RDiv(l_res.losses[k], R(2))

\* C28 (amended): what forward returns as loss_bbox and loss_giou are the
\* summed L1 and 1 - GIoU errors of the matched pairs, divided by
\* num_boxes = max(1, number of class labels in the batch) and multiplied
\* by the term's weight.  Each halves when num_boxes alone doubles (images
\* are added whose matched pairs have no error), and is unchanged when the
\* batch is doubled with each pair's error held fixed, because the sum and
\* num_boxes double together.
C28_NormalisedByNumBoxes ==
    BoxLossReturned =>
        LET ix == m_indices.indices
            w  == l_crit.weight_dict
        IN  /\ DOMAIN l_res.losses = {<<"loss_bbox">>, <<"loss_giou">>} \cap DOMAIN w
            /\ l_res.losses[<<"loss_bbox">>] =
                   RDiv(RMul(R(w[<<"loss_bbox">>]), SumL1(ix)), R(NumBoxes(l_targets)))
            /\ <<"loss_giou">> \in DOMAIN w =>
                   l_res.losses[<<"loss_giou">>] =
                       RDiv(RMul(R(w[<<"loss_giou">>]), SumGiouError(ix)), R(NumBoxes(l_targets)))
            /\ NumMatched(ix) = 0 => \A k \in DOMAIN l_res.losses : l_res.losses[k] = R(0)
            /\ \A k \in DOMAIN l_res.losses :
                  /\ DoubledNumBoxes.losses[k] = RDiv(l_res.losses[k], R(2))
                  /\ TwiceTheBatch.losses[k] = l_res.losses[k]
            \* the matchings assumed for the two longer batches are results
            \* of the matcher (checked for every batch of one image)
            /\ Len(l_targets) = 1 =>
                  /\ ix \o ExactIndices
                         \in MatcherForward(m_cfg, PaddedOutputs, TwiceTargets).results
                  /\ ix \o ix \in MatcherForward(m_cfg, TwiceOutputs, TwiceTargets).results

\* two images with two ground truths each, all matched, under the default
\* weights, with a loss_bbox that is not zero.  The matcher can match the
\* doubled batch as it matched the batch: eight matched boxes and the same
\* loss_bbox.  It can match the added exact images query k with ground
\* truth k: twice num_boxes, the same summed error, half the loss_bbox.
C28_Witness ==
    /\ BoxLossReturned
    /\ Len(l_targets) = 2 /\ NumBoxes(l_targets) = 4
    /\ NumMatched(m_indices.indices) = 4
    /\ l_crit.weight_dict[<<"loss_bbox">>] = 5 /\ <<"loss_giou">> \in DOMAIN l_crit.weight_dict
    /\ l_res.losses[<<"loss_bbox">>] = Rat(115, 32)
    /\ NumMatched(m_indices.indices \o m_indices.indices) = 8
    /\ m_indices.indices \o m_indices.indices
           \in MatcherForward(m_cfg, TwiceOutputs, TwiceTargets).results
    /\ TwiceTheBatch.losses[<<"loss_bbox">>] = Rat(115, 32)
    /\ NumBoxes(TwiceTargets) = 8
    /\ m_indices.indices \o ExactIndices
           \in MatcherForward(m_cfg, PaddedOutputs, TwiceTargets).results
    /\ DoubledNumBoxes.losses[<<"loss_bbox">>] = Rat(115, 64)

(***************************************************************************)
(* Further claims about the constructed model (checked under SpecModel).   *)
(***************************************************************************)
\* C29: constructing RTDetrTransformer leaves config.feat_strides as it was
\* handed over, and a second construction from the same configuration
\* passes the same validation and builds the same levels as the first.
C29_ConfigNotMutated ==
    /\ md_pc \notin {"new", "idle"} =>
          md_cfg.config.feat_strides = md_cfg.given.feat_strides
    /\ md_pc \in {"rebuilt", "rebuild_error"} =>
          /\ md_out.raised = None
          /\ md_out.feat_strides = md_cfg.decoder.feat_strides

(***************************************************************************)
(* Anchor validity and the top-k query selection of                        *)
(* RTDetrTransformer.forward (SpecSelect).  The selection is run on        *)
(* feature maps given by their shapes and one feature value per position;  *)
(* md_cfg, md_in and md_out hold the transformer's parameters, the call's  *)
(* arguments and its result.                                               *)
(***************************************************************************)
\* lines 904-915: per level and position (row after row) the anchor
\* <<cx, cy, w, h>>
AnchorBoxes(spatial_shapes, grid_size) ==
    Cat([l \in 1..Len(spatial_shapes) |->
            LET h == spatial_shapes[l][1]
                w == spatial_shapes[l][2]
                wh == RMul(grid_size, R(2 ^ (l - 1)))
            IN  [p \in 1..(h * w) |->
                    <<Rat(2 * ((p - 1) % w) + 1, 2 * w), Rat(2 * ((p - 1) \div w) + 1, 2 * h),
                      wh, wh>>]])

\* line 916
ValidMask(anchors, eps) ==
    [p \in 1..Len(anchors) |->
        \A c \in 1..4 : RLt(eps, anchors[p][c]) /\ RLt(anchors[p][c], RSub(R(1), eps))]

\* lines 917-918: the inverse sigmoid of a valid anchor (kept as the anchor,
\* the logarithm is not computed), +inf for an invalid one
AnchorsUnact(anchors, valid_mask) ==
    [p \in 1..Len(anchors) |->
        IF valid_mask[p] THEN anchors[p] ELSE <<PosInf, PosInf, PosInf, PosInf>>]

\* the class score of a position as a function of its memory value:
\* enc_score_head(enc_output(.)).max(-1), lines 975-977 and 980
ScoreHead(head, v) ==
    CASE head = "rising"  -> v
      [] head = "falling" -> -v
      [] head = "parity"  -> v % 2

\* torch.topk(scores, k) from the indices chosen so far (indices from 0):
\* the largest remaining score next, any of them on a tie
RECURSIVE TopkFrom(_, _, _)
TopkFrom(scores, chosen, k) ==
    IF k = 0 THEN {chosen}
    ELSE LET rest == {i \in 0..(Len(scores) - 1) : \A c \in 1..Len(chosen) : chosen[c] # i}
             best == {i \in rest : \A j \in rest : scores[j + 1] <= scores[i + 1]}
         IN  UNION {TopkFrom(scores, Append(chosen, i), k - 1) : i \in best}

\* RTDetrTransformer.forward, lines 968-980: the anchors and their validity
\* (generate_anchors), memory = valid_mask * feat_flatten, the class scores
\* and the indices of the num_queries largest; the set of the results
\* torch.topk may give
SelectQueries(xf, spatial_shapes, feats) ==
    LET anchors    == AnchorBoxes(spatial_shapes, Rat(1, 20))
        valid_mask == ValidMask(anchors, xf.eps)
        memory     == [p \in 1..Len(feats) |-> IF valid_mask[p] THEN feats[p] ELSE 0]
        scores     == [p \in 1..Len(memory) |-> ScoreHead(xf.head, memory[p])]
    IN  IF xf.num_queries > Len(scores) THEN {[raised |-> "RuntimeError"]}
        ELSE {[raised |-> None, valid_mask |-> valid_mask,
               anchors |-> AnchorsUnact(anchors, valid_mask),
               scores |-> scores, topk_ind |-> t] : t \in TopkFrom(scores, <<>>, xf.num_queries)}

MaxSelectLevels == 6

\* a first level of any shape and up to MaxSelectLevels - 1 further levels
\* of one position each
SelectShapes ==
    {[l \in 1..n |-> IF l = 1 THEN <<h, w>> ELSE <<1, 1>>] :
        n \in 1..MaxSelectLevels, h, w \in Sides}

NumPositions(spatial_shapes) ==
    SumInts([l \in 1..Len(spatial_shapes) |-> spatial_shapes[l][1] * spatial_shapes[l][2]])

\* feat_flatten: a non-zero value per position, rising or falling along the
\* positions
FeatValues(n) == {[p \in 1..n |-> p], [p \in 1..n |-> n + 1 - p]}

\* eps = 1e-2 (the configuration default) and a wide margin
InitSelect ==
    /\ md_pc = "select_call"
    /\ \E eps \in {Rat(1, 100), Rat(1, 4)}, num_queries \in 1..MaxQueries,
          head \in {"rising", "falling", "parity"} :
          md_cfg = [eps |-> eps, num_queries |-> num_queries, head |-> head]
    /\ \E spatial_shapes \in SelectShapes :
          \E feats \in FeatValues(NumPositions(spatial_shapes)) :
             md_in = [spatial_shapes |-> spatial_shapes, feats |-> feats]
    /\ md_st = NoTensor /\ md_out = NoTensor
    /\ IdleBox /\ IdleMatcher /\ IdleTransformer /\ IdleLoss

CallSelectQueries ==
    /\ md_pc = "select_call"
    /\ \E r \in SelectQueries(md_cfg, md_in.spatial_shapes, md_in.feats) :
          /\ md_out' = r
          /\ md_pc' = IF r.raised = None THEN "selected" ELSE "select_error"
    /\ UNCHANGED <<md_cfg, md_in, md_st, boxVars, matchVars, xfVars, lossVars>>

NextSelect == CallSelectQueries

SpecSelect == InitSelect /\ [][NextSelect]_vars

\* C21: a position whose anchor is invalid (set to +inf) is never among the
\* num_queries positions the top-k selection returns, whatever the class
\* scores are.
C21_InvalidAnchorNeverSelected ==
    md_pc = "selected" =>
        \A k \in 1..Len(md_out.topk_ind) : md_out.valid_mask[md_out.topk_ind[k] + 1]

====
